---- MODULE Spec2Model ----
(***************************************************************************)
(* The offline/caching subsystem of the site: the service worker          *)
(* (src/capabilities/script.js, lines 770-1057) and the page-side          *)
(* performance optimizer (src/unnamed/part_001).                           *)
(*                                                                         *)
(* Strings the code tests with includes() are sequences of characters;    *)
(* URL paths are sequences of tokens split at every "/" (each "/" is a    *)
(* token of its own).  Every allowlist entry starts with "/", so a         *)
(* character-level endsWith() can only match at a token boundary and the   *)
(* token-level test below decides exactly the same paths.                 *)
(***************************************************************************)
EXTENDS Integers, Sequences, FiniteSets, Bags, TLC

(***************************************************************************)
(* Bounds of the model.                                                    *)
(***************************************************************************)
MaxBody == 2
MaxFetchEvents == 2
MaxCommands == 2
MaxTaskFetches == 2
MaxTime == 1
MaxCls == 2
MaxPrefetchCalls == 4
MaxEvents == 1
MaxUpdates == 2
MaxEntries == 2
MaxCalls == 3
MaxTimers == 2
MaxFrames == 3
MaxReveals == 4
MaxRipples == 1

(***************************************************************************)
(* String helpers: String.prototype.includes and endsWith.                 *)
(***************************************************************************)
Includes(s, sub) ==
    \E i \in 0..(Len(s) - Len(sub)) : SubSeq(s, i + 1, i + Len(sub)) = sub

EndsWith(s, suffix) ==
    /\ Len(suffix) <= Len(s)
    /\ SubSeq(s, Len(s) - Len(suffix) + 1, Len(s)) = suffix

(***************************************************************************)
(* Cache names (script.js 773-776).                                        *)
(***************************************************************************)
CACHE_VERSION == <<"v", "1", ".", "2", "0", "2", "4">>

\* A faulty variant of STATIC_CACHE: the literal name of the last release.
STATIC_CACHE_Literal ==
    <<"s", "t", "a", "t", "i", "c", "-", "v", "1", ".", "2", "0", "2", "3">>

STATIC_CACHE == <<"s", "t", "a", "t", "i", "c", "-">> \o CACHE_VERSION
DYNAMIC_CACHE == <<"d", "y", "n", "a", "m", "i", "c", "-">> \o CACHE_VERSION
CRITICAL_CACHE == <<"c", "r", "i", "t", "i", "c", "a", "l", "-">> \o CACHE_VERSION

\* Partitions an earlier deployment of the worker may have left in the
\* origin's cache storage: two of version v1.2023 and one of a version
\* whose string has the current one as a prefix (v1.2024-b).
OldVersion == <<"v", "1", ".", "2", "0", "2", "3">>
LongerVersion == CACHE_VERSION \o <<"-", "b">>
LeftoverCaches ==
    { <<"s", "t", "a", "t", "i", "c", "-">> \o OldVersion,
      <<"d", "y", "n", "a", "m", "i", "c", "-">> \o OldVersion,
      <<"s", "t", "a", "t", "i", "c", "-">> \o LongerVersion }

(***************************************************************************)
(* URLs and requests.                                                      *)
(***************************************************************************)
LocationHostname == <<"dynamicsolutions", ".", "example">>

Url(protocol, hostname, pathname, search) ==
    [protocol |-> protocol, hostname |-> hostname,
     pathname |-> pathname, search |-> search]

\* new URL(path, location): a same-origin path resolved against the worker.
Local(pathname) == Url("https:", LocationHostname, pathname, "")

Request(method, url, destination) ==
    [method |-> method, url |-> url, destination |-> destination]

\* CACHE_STRATEGIES.critical (script.js 781-790).
CriticalPaths ==
    { <<"/">>,
      <<"/", "index.html">>,
      <<"/", "home", "/", "index.html">>,
      <<"/", "about", "/", "index.html">>,
      <<"/", "assessment", "/", "index.html">>,
      <<"/", "strategic-assessment-new", "/", "index.html">>,
      <<"/", "capabilities", "/", "index.html">>,
      <<"/", "analytics-dashboard", "/", "index.html">> }

\* PRECACHE_URLS (script.js 804-807).
PRECACHE_URLS == CriticalPaths \cup { <<"/", "image", "/", "Logo oficial.png">> }

\* The fonts of preloadCriticalResources (script.js 985-988).
FontUrls ==
    << Url("https:", <<"fonts", ".", "googleapis", ".", "com">>, <<"/", "css2">>,
           "?family=Playfair+Display:wght@400;500;600;700;800;900&display=swap"),
       Url("https:", <<"fonts", ".", "googleapis", ".", "com">>, <<"/", "css2">>,
           "?family=Inter:wght@300;400;500;600;700&display=swap") >>

\* The pages of warmupCache (script.js 1003-1006).
WarmupPages ==
    << <<"/", "about", "/", "index.html">>,
       <<"/", "assessment", "/", "index.html">> >>

(***************************************************************************)
(* Responses and the outcomes of a network fetch.                          *)
(***************************************************************************)
Resp(status, body) ==
    [kind |-> "response", status |-> status, body |-> body, error |-> ""]

Undefined == [kind |-> "undefined", status |-> 0, body |-> 0, error |-> ""]

Rejected(error) == [kind |-> "error", status |-> 0, body |-> 0, error |-> error]

\* new Response('Offline', { status: 503 }) (script.js 912); body 0 stands
\* for the text 'Offline', which no network response carries.
OfflineResponse == Resp(503, 0)

NetworkError == Rejected("TypeError: Failed to fetch")
TimeoutError == Rejected("Network timeout")

Bodies == 1..MaxBody
NetResponses == { Resp(s, b) : s \in {200, 404}, b \in Bodies }

\* fetch(request): resolves with a response of any status or rejects.
FetchOutcomes == NetResponses \cup {NetworkError}

\* The same for the fetches of install and activate, which all see the
\* site as it is deployed at that time (body 1).
DeployOutcomes == { Resp(200, 1), Resp(404, 1), NetworkError }

\* NETWORK_TIMEOUT (script.js 810) and the default of fetchWithTimeout (960).
NETWORK_TIMEOUT == 3000
DEFAULT_TIMEOUT == 5000

\* A faulty variant of fetchWithTimeout: a plain fetch, no timer.
fetchWithoutTimer(timeout) == FetchOutcomes

\* fetchWithTimeout(request, timeout) (script.js 960-967): the race of the
\* fetch against the timer; the timer winning rejects with 'Network timeout'.
fetchWithTimeout(timeout) == FetchOutcomes \cup {TimeoutError}

(***************************************************************************)
(* The cache storage API: caches.open, cache.match, cache.put.             *)
(***************************************************************************)
EmptyCache == [k \in {} |-> Undefined]

CachesOpen(c, name) ==
    IF name \in DOMAIN c THEN c ELSE c @@ (name :> EmptyCache)

CacheMatch(c, name, key) ==
    IF name \in DOMAIN c /\ key \in DOMAIN c[name] THEN c[name][key] ELSE Undefined

\* A put through the handle of a partition that was deleted meanwhile
\* writes to a store nobody can reach any more.
CachePut(c, name, key, resp) ==
    IF name \in DOMAIN c
    THEN [c EXCEPT ![name] =
            [k \in (DOMAIN c[name]) \cup {key} |->
                IF k = key THEN resp ELSE c[name][k]]]
    ELSE c

RECURSIVE CachePutAll(_, _, _, _)
CachePutAll(c, name, keys, resp) ==
    IF keys = {} THEN c
    ELSE LET k == CHOOSE x \in keys : TRUE
         IN  CachePutAll(CachePut(c, name, k, resp), name, keys \ {k}, resp)

(***************************************************************************)
(* State of the service worker.                                            *)
(***************************************************************************)
VARIABLES
    sw,             \* lifecycle state of the worker
    skipWaiting,    \* the number of calls of self.skipWaiting() so far
    caches,         \* cache storage: partition name -> (URL -> response)
    inst,           \* the install handler's pending work
    act,            \* the activate handler's pending work
    handlers,       \* the fetch handlers in flight
    background,     \* detached fetches started by fetch handlers (a bag)
    tasks,          \* the command handlers started by messages
    nFetch,         \* fetch events dispatched so far
    nCmd            \* messages received so far

swVars == <<sw, skipWaiting, caches, inst, act, handlers, background, tasks, nFetch, nCmd>>

(***************************************************************************)
(* State of the page's UltraPerformanceOptimizer (part_001).               *)
(***************************************************************************)
VARIABLES
    metrics,        \* this.metrics
    clsScore,       \* the running sum of the layout-shift observer
    received,       \* the signals the browser has reported so far
    snapshot,       \* what getMetrics returned last (<<>>: never called)
    resourceHints,  \* this.resourceHints
    head,           \* the link elements appended to document.head (a bag)
    requested,      \* the hrefs prefetchResource was called with (a bag)
    hoverTimer,     \* the mouseover event the debounce timer holds
    inThrottle      \* the scroll throttle is closed

VARIABLES
    registration,   \* initServiceWorker: where navigator.serviceWorker.register is
    unhandled,      \* a rejection has escaped the optimizer
    bootstrap,      \* the steps of init that have run
    workers,        \* the state of each worker an updatefound event announced
    controller,     \* navigator.serviceWorker.controller is set
    notifications,  \* the update notices appended to document.body
    reloads,        \* the number of calls of window.location.reload()
    lazy            \* the elements setupLazyLoading found

\* The viewport animation loop of setupRAFAnimations (part_001 183-224).
VARIABLES
    isAnimating,    \* the flag of the loop
    frames,         \* the animate callbacks requestAnimationFrame holds
    hidden,         \* document.hidden
    animateIn       \* the animated element has the class animate-in

rafVars == <<isAnimating, frames, hidden, animateIn>>

\* The capabilities page (script.js 1-769): the service modal and the
\* progressive discovery of the three services on a mobile-width viewport.
VARIABLES
    modal,              \* the modal overlay's class active, the body's overflow
                        \* style, and the content of the modal body
    revealed,           \* the service overlays that have the class revealed
    badges,             \* the mastery badge of each service
    ripples,            \* the ripple elements in the document
    discovered,         \* the hidden details that have the class discovered
    servicesRevealed,   \* the counter of the overlay observer
    detailsDiscovered,  \* the counter of the document's click listener
    rewards             \* the mastery reward and the ultimate reward

rewardVars ==
    <<revealed, badges, ripples, discovered, servicesRevealed, detailsDiscovered,
      rewards>>

siteVars == <<modal, rewardVars>>

uiVars == <<rafVars, siteVars>>

pageCore ==
    <<registration, unhandled, bootstrap, workers, controller, notifications,
      reloads, lazy>>

pageVars == <<pageCore, uiVars>>

ctlVars ==
    <<metrics, clsScore, received, snapshot, resourceHints, head, requested,
      hoverTimer, inThrottle, pageVars>>

vars == <<swVars, ctlVars>>

(***************************************************************************)
(* Inputs: the requests pages issue and the messages they post.            *)
(***************************************************************************)
FetchRequests ==
    { \* an allowlisted page, precached by install
      Request("GET", Local(<<"/", "about", "/", "index.html">>), "document"),
      \* a path that only ends with the allowlist entry "/"
      Request("GET", Local(<<"/", "blog", "/">>), "document"),
      \* a script on a foreign origin whose path ends with "/index.html"
      Request("GET", Url("https:", <<"cdnjs", ".", "cloudflare", ".", "com">>,
                         <<"/", "libs", "/", "index.html">>, ""), "script"),
      Request("GET", Local(<<"/", "capabilities", "/", "styles.css">>), "style"),
      Request("GET", Local(<<"/", "data", "/", "metrics.json">>), ""),
      Request("GET", Url("https:", <<"fonts", ".", "gstatic", ".", "com">>,
                         <<"/", "s", "/", "inter.woff2">>, ""), "font"),
      Request("POST", Local(<<"/", "about", "/", "index.html">>), ""),
      Request("GET", Url("chrome-extension:", <<"abcdef">>, <<"/", "page.js">>, ""),
              "script"),
      Request("GET", Url("https:", <<"www", ".", "google-analytics", ".", "com">>,
                         <<"/", "collect">>, ""), "image") }

RoutePool == { <<"/", "about", "/", "index.html">>, <<"/", "services", "/", "cloud.html">> }

RouteLists == UNION { [1..n -> RoutePool] : n \in 0..MaxTaskFetches }

\* event.data of a message posted without data, and of one whose data has
\* no type.
NoData == [k \in {} |-> ""]
NoType == [url |-> <<"/", "about", "/", "index.html">>]

Messages ==
    { [type |-> "SKIP_WAITING", url |-> <<>>, routes |-> <<>>], NoData, NoType }
    \cup { [type |-> "CACHE_PAGE", url |-> u, routes |-> <<>>] : u \in RoutePool }
    \cup { [type |-> "PREFETCH_ROUTES", url |-> <<>>, routes |-> rs] : rs \in RouteLists }
    \cup { [type |-> "CACHE_UPDATED", url |-> <<>>, routes |-> <<>>] }

(***************************************************************************)
(* Install (script.js 813-828).                                            *)
(***************************************************************************)
Settled(status) == status # "pending"

\* The handler starts its three promises: caches.open(CRITICAL_CACHE) ahead
\* of addAll, preloadCriticalResources (which opens STATIC_CACHE and starts
\* one fetch per font) and self.skipWaiting().
InstallStart ==
    /\ sw = "parsed"
    /\ sw' = "installing"
    /\ caches' = CachesOpen(CachesOpen(caches, CRITICAL_CACHE), STATIC_CACHE)
    /\ inst' = [addAll |-> "pending", failed |-> {},
                fonts |-> [i \in DOMAIN FontUrls |-> "pending"]]
    /\ skipWaiting' = skipWaiting + 1
    /\ UNCHANGED <<ctlVars, act, handlers, background, tasks, nFetch, nCmd>>

\* cache.addAll(PRECACHE_URLS) stores every response or, when one fetch
\* fails or answers with a status that is not ok, none and rejects.
addAll(c, ok, body) ==
    IF ok
    THEN CachePutAll(c, CRITICAL_CACHE, { Local(p) : p \in PRECACHE_URLS }, Resp(200, body))
    ELSE c

\* The fetches of addAll that may fail: none, any one URL of the list, or
\* all of them (the network is down).
PrecacheFailures == { {} } \cup { {p} : p \in PRECACHE_URLS } \cup { PRECACHE_URLS }

\* What addAll leaves when the fetches of the URLs in failed fail.
AddAllStored(c, failed) ==
    [caches |-> addAll(c, failed = {}, 1),
     addAll |-> IF failed = {} THEN "stored" ELSE "failed"]

AddAllSettle ==
    /\ sw = "installing"
    /\ inst.addAll = "pending"
    /\ \E failed \in PrecacheFailures :
          LET after == AddAllStored(caches, failed)
          IN  /\ caches' = after.caches
              /\ inst' = [inst EXCEPT !.addAll = after.addAll, !.failed = failed]
    /\ UNCHANGED <<ctlVars, sw, skipWaiting, act, handlers, background, tasks, nFetch, nCmd>>

\* fetch(url).then(response => cache.put(url, response)).catch(() => {}):
\* the shape shared by preloadCriticalResources, warmupCache and
\* prefetchRoutes.  A resolved fetch is stored whatever its status.
FetchAndPut(c, name, key, outcome) ==
    IF outcome.kind = "response" THEN CachePut(c, name, key, outcome) ELSE c

StatusAfter(outcome) ==
    IF outcome.kind = "response" THEN "stored" ELSE "failed"

FontSettle(i) ==
    /\ sw # "parsed"
    /\ inst.fonts[i] = "pending"
    /\ \E outcome \in DeployOutcomes :
          /\ caches' = FetchAndPut(caches, STATIC_CACHE, FontUrls[i], outcome)
          /\ inst' = [inst EXCEPT !.fonts[i] = StatusAfter(outcome)]
    /\ UNCHANGED <<ctlVars, sw, skipWaiting, act, handlers, background, tasks, nFetch, nCmd>>

\* Promise.all settles: it rejects as soon as addAll has rejected and
\* resolves when addAll and every font have settled.
InstallDone ==
    /\ sw = "installing"
    /\ \/ inst.addAll = "failed" /\ sw' = "redundant"
       \/ /\ inst.addAll = "stored"
          /\ \A i \in DOMAIN FontUrls : Settled(inst.fonts[i])
          /\ sw' = "installed"
    /\ UNCHANGED <<ctlVars, skipWaiting, caches, inst, act, handlers, background, tasks, nFetch, nCmd>>

(***************************************************************************)
(* Activate (script.js 831-852).                                           *)
(***************************************************************************)
\* A faulty variant of StaleNames: every name but the three of the
\* current version.
StaleNamesByExactName(cacheNames) ==
    cacheNames \ {CRITICAL_CACHE, STATIC_CACHE, DYNAMIC_CACHE}

\* The names the prune step deletes: those of the enumeration that do not
\* contain the version string.
StaleNames(cacheNames) == { n \in cacheNames : ~Includes(n, CACHE_VERSION) }

\* The handler starts caches.keys(), clients.claim() and warmupCache (which
\* opens CRITICAL_CACHE and starts one fetch per page).
ActivateStart ==
    /\ sw = "installed"
    /\ skipWaiting > 0
    /\ sw' = "activating"
    /\ caches' = CachesOpen(caches, CRITICAL_CACHE)
    /\ act' = [keys |-> DOMAIN caches, pruned |-> FALSE,
               warm |-> [i \in DOMAIN WarmupPages |-> "pending"]]
    /\ UNCHANGED <<ctlVars, skipWaiting, inst, handlers, background, tasks, nFetch, nCmd>>

ActivatePrune ==
    /\ sw = "activating"
    /\ ~act.pruned
    /\ caches' = [n \in (DOMAIN caches) \ StaleNames(act.keys) |-> caches[n]]
    /\ act' = [act EXCEPT !.pruned = TRUE]
    /\ UNCHANGED <<ctlVars, sw, skipWaiting, inst, handlers, background, tasks, nFetch, nCmd>>

WarmupSettle(i) ==
    /\ sw = "activating"
    /\ act.warm[i] = "pending"
    /\ \E outcome \in DeployOutcomes :
          /\ caches' = FetchAndPut(caches, CRITICAL_CACHE, Local(WarmupPages[i]), outcome)
          /\ act' = [act EXCEPT !.warm[i] = StatusAfter(outcome)]
    /\ UNCHANGED <<ctlVars, sw, skipWaiting, inst, handlers, background, tasks, nFetch, nCmd>>

ActivateDone ==
    /\ sw = "activating"
    /\ act.pruned
    /\ \A i \in DOMAIN WarmupPages : Settled(act.warm[i])
    /\ sw' = "activated"
    /\ UNCHANGED <<ctlVars, skipWaiting, caches, inst, act, handlers, background, tasks, nFetch, nCmd>>

(***************************************************************************)
(* Fetch: the intercept filter and handleRequest (script.js 855-891).      *)
(***************************************************************************)
\* A faulty variant of Intercepted: the method is not looked at.
InterceptedAnyMethod(request) ==
    /\ request.url.protocol # "chrome-extension:"
    /\ ~Includes(request.url.hostname, <<"google-analytics">>)

\* The listener's three early returns (script.js 859-866).
Intercepted(request) ==
    /\ request.method = "GET"
    /\ request.url.protocol # "chrome-extension:"
    /\ ~Includes(request.url.hostname, <<"google-analytics">>)

\* A faulty variant of the allowlist test: exact matches only.
MatchesCriticalPathExactly(pathname) == pathname \in CriticalPaths

\* CACHE_STRATEGIES.critical.some(path =>
\*     url.pathname === path || url.pathname.endsWith(path))
MatchesCriticalPath(pathname) ==
    \E path \in CriticalPaths : pathname = path \/ EndsWith(pathname, path)

StaticDestination(destination) == destination \in {"style", "script", "image"}

\* A faulty variant of handleRequest: the destination is tested first.
handleRequestDestinationFirst(request) ==
    IF StaticDestination(request.destination)
    THEN [strategy |-> "staleWhileRevalidate", cacheName |-> STATIC_CACHE]
    ELSE IF \E path \in CriticalPaths : EndsWith(request.url.pathname, path)
    THEN [strategy |-> "cacheFirst", cacheName |-> CRITICAL_CACHE]
    ELSE [strategy |-> "networkFirst", cacheName |-> DYNAMIC_CACHE]

\* handleRequest: the strategy and the partition of a request.
handleRequest(request) ==
    IF MatchesCriticalPath(request.url.pathname)
    THEN [strategy |-> "cacheFirst", cacheName |-> CRITICAL_CACHE]
    ELSE IF StaticDestination(request.destination)
    THEN [strategy |-> "staleWhileRevalidate", cacheName |-> STATIC_CACHE]
    ELSE IF ~Includes(request.url.hostname, LocationHostname)
    THEN [strategy |-> "networkFirst", cacheName |-> DYNAMIC_CACHE]
    ELSE [strategy |-> "networkFirst", cacheName |-> DYNAMIC_CACHE]

\* One call of the fetch listener.  pc is the call's position: "open"
\* (awaiting caches.open), "match" (awaiting cache.match), "net" (awaiting
\* fetchWithTimeout), "done" (respondWith settled with result), "ignored"
\* (the listener returned without respondWith).  net is the outcome of the
\* network fetch the call awaited, refreshes the number of detached
\* fetches it started.
Call(request, pc, strategy, cacheName, timeout) ==
    [request |-> request, pc |-> pc, strategy |-> strategy, cacheName |-> cacheName,
     timeout |-> timeout, cached |-> Undefined, net |-> Undefined,
     result |-> Undefined, refreshes |-> 0]

\* The synchronous part of the listener: up to the first await of the
\* strategy (caches.open for cache-first and stale-while-revalidate,
\* fetchWithTimeout(request, NETWORK_TIMEOUT) for network-first).
StartCall(request) ==
    IF ~Intercepted(request)
    THEN Call(request, "ignored", "none", <<>>, 0)
    ELSE LET d == handleRequest(request)
         IN  IF d.strategy = "networkFirst"
             THEN Call(request, "net", d.strategy, d.cacheName, NETWORK_TIMEOUT)
             ELSE Call(request, "open", d.strategy, d.cacheName, DEFAULT_TIMEOUT)

FetchEvent(request) ==
    /\ sw = "activated"
    /\ nFetch < MaxFetchEvents
    /\ nFetch' = nFetch + 1
    /\ handlers' = Append(handlers, StartCall(request))
    /\ UNCHANGED <<ctlVars, sw, skipWaiting, caches, inst, act, background, tasks, nCmd>>

\* const cache = await caches.open(cacheName)  (script.js 896, 918)
CallOpen(i) ==
    /\ handlers[i].pc = "open"
    /\ caches' = CachesOpen(caches, handlers[i].cacheName)
    /\ handlers' = [handlers EXCEPT ![i].pc = "match"]
    /\ UNCHANGED <<ctlVars, sw, skipWaiting, inst, act, background, tasks, nFetch, nCmd>>

\* A detached fetch: "refresh" is updateCacheInBackground (script.js
\* 970-980), "revalidate" the network promise of stale-while-revalidate
\* that the call did not wait for (script.js 922-927).
Detached(kind, call) ==
    [kind |-> kind, url |-> call.request.url, cacheName |-> call.cacheName]

\* A detached fetch that has settled with outcome: what remains of it.
Delivered(t, outcome) ==
    [kind |-> "delivered", from |-> t.kind, url |-> t.url, cacheName |-> t.cacheName,
     outcome |-> outcome]

\* The bag of detached fetches once t has settled with outcome.
Settle(t, outcome) ==
    (background (-) SetToBag({t})) (+) SetToBag({ Delivered(t, outcome) })

\* A faulty variant of cacheFirstMatched: a hit starts no background update.
cacheFirstMatchedNoRefresh(call, cached) ==
    IF cached.kind = "response"
    THEN [call EXCEPT !.cached = cached, !.result = cached, !.pc = "done"]
    ELSE [call EXCEPT !.cached = cached, !.pc = "net"]

\* cacheFirstStrategy after cache.match (script.js 897-906): a hit starts
\* the background update and returns the cached response; a miss goes on
\* to await fetchWithTimeout(request).
cacheFirstMatched(call, cached) ==
    IF cached.kind = "response"
    THEN [call EXCEPT !.cached = cached, !.result = cached, !.pc = "done",
                      !.refreshes = @ + 1]
    ELSE [call EXCEPT !.cached = cached, !.pc = "net"]

\* staleWhileRevalidateStrategy after cache.match (script.js 919-930): the
\* network fetch is started in both cases; a hit returns the cached
\* response at once, a miss returns the network promise.
staleWhileRevalidateMatched(call, cached) ==
    IF cached.kind = "response"
    THEN [call EXCEPT !.cached = cached, !.result = cached, !.pc = "done",
                      !.refreshes = @ + 1]
    ELSE [call EXCEPT !.cached = cached, !.pc = "net"]

Matched(call, cached) ==
    IF call.strategy = "cacheFirst"
    THEN cacheFirstMatched(call, cached)
    ELSE staleWhileRevalidateMatched(call, cached)

\* The detached fetches a call has started by the time it is in state next.
Started(call, next) ==
    IF next.refreshes > call.refreshes
    THEN SetToBag({ Detached(IF call.strategy = "cacheFirst" THEN "refresh"
                             ELSE "revalidate", call) })
    ELSE EmptyBag

\* const cachedResponse = await cache.match(request)  (script.js 897, 919)
CallMatch(i) ==
    /\ handlers[i].pc = "match"
    /\ LET call == handlers[i]
           next == Matched(call, CacheMatch(caches, call.cacheName, call.request.url))
       IN  /\ handlers' = [handlers EXCEPT ![i] = next]
           /\ background' = background (+) Started(call, next)
    /\ UNCHANGED <<ctlVars, sw, skipWaiting, caches, inst, act, tasks, nFetch, nCmd>>

\* A faulty variant of cacheFirstFetched: the network response is returned
\* but never put.
cacheFirstFetchedNoPut(call, c, outcome) ==
    [call |-> [call EXCEPT !.net = outcome, !.pc = "done",
                           !.result = IF outcome.kind = "response" THEN outcome
                                      ELSE OfflineResponse],
     caches |-> c]

\* A faulty variant of cacheFirstFetched: no catch, the rejection escapes.
cacheFirstFetchedRethrows(call, c, outcome) ==
    [call |-> [call EXCEPT !.net = outcome, !.result = outcome, !.pc = "done"],
     caches |-> IF outcome.kind = "response"
                THEN CachePut(c, call.cacheName, call.request.url, outcome) ELSE c]

\* A faulty variant of cacheFirstFetched: the response is put only when the
\* partition has no entry for the request yet.
cacheFirstFetchedKeepsFirst(call, c, outcome) ==
    IF outcome.kind = "response"
    THEN [call |-> [call EXCEPT !.net = outcome, !.result = outcome, !.pc = "done"],
          caches |-> IF CacheMatch(c, call.cacheName, call.request.url).kind = "response"
                     THEN c
                     ELSE CachePut(c, call.cacheName, call.request.url, outcome)]
    ELSE [call |-> [call EXCEPT !.net = outcome, !.result = OfflineResponse,
                                !.pc = "done"],
          caches |-> c]

\* cacheFirstStrategy after fetchWithTimeout (script.js 906-913): the
\* response is put (not awaited, whatever its status) and returned; a
\* rejection is caught and answered with the synthetic offline response.
cacheFirstFetched(call, c, outcome) ==
    IF outcome.kind = "response"
    THEN [call |-> [call EXCEPT !.net = outcome, !.result = outcome, !.pc = "done"],
          caches |-> CachePut(c, call.cacheName, call.request.url, outcome)]
    ELSE [call |-> [call EXCEPT !.net = outcome, !.result = OfflineResponse,
                                !.pc = "done"],
          caches |-> c]

\* A faulty variant of staleWhileRevalidateFetched: the cached copy (here
\* undefined) is returned even when the network has answered.
staleWhileRevalidateFetchedStale(call, c, outcome) ==
    [call |-> [call EXCEPT !.net = outcome, !.result = call.cached, !.pc = "done"],
     caches |-> IF outcome.kind = "response"
                THEN CachePut(c, call.cacheName, call.request.url, outcome) ELSE c]

\* staleWhileRevalidateStrategy with no cached copy (script.js 922-930):
\* the network promise is returned; .then puts and passes the response on,
\* .catch(() => cachedResponse) resolves with the (undefined) cached copy.
staleWhileRevalidateFetched(call, c, outcome) ==
    IF outcome.kind = "response"
    THEN [call |-> [call EXCEPT !.net = outcome, !.result = outcome, !.pc = "done"],
          caches |-> CachePut(c, call.cacheName, call.request.url, outcome)]
    ELSE [call |-> [call EXCEPT !.net = outcome, !.result = call.cached, !.pc = "done"],
          caches |-> c]

\* A faulty variant of networkFirstFetched: a response is put whatever its
\* status.
networkFirstFetchedStoresAny(call, c, outcome) ==
    IF outcome.kind = "response"
    THEN [call |-> [call EXCEPT !.net = outcome, !.result = outcome, !.pc = "done"],
          caches |-> CachePut(CachesOpen(c, call.cacheName), call.cacheName,
                              call.request.url, outcome)]
    ELSE LET opened == CachesOpen(c, call.cacheName)
             cached == CacheMatch(opened, call.cacheName, call.request.url)
         IN  [call |-> [call EXCEPT !.net = outcome, !.cached = cached, !.pc = "done",
                                    !.result = IF cached.kind = "response"
                                               THEN cached ELSE outcome],
              caches |-> opened]

\* A faulty variant of networkFirstFetched: a rejection is rethrown
\* without looking at the partition.
networkFirstFetchedNoFallback(call, c, outcome) ==
    [call |-> [call EXCEPT !.net = outcome, !.result = outcome, !.pc = "done"],
     caches |-> IF outcome.kind = "response" /\ outcome.status = 200
                THEN CachePut(CachesOpen(c, call.cacheName), call.cacheName,
                              call.request.url, outcome)
                ELSE c]

\* networkFirstStrategy after fetchWithTimeout (script.js 936-956): a
\* response is returned, and put (after caches.open) when its status is
\* 200; a rejection opens the partition and returns the cached copy, or
\* rethrows the error when there is none.
networkFirstFetched(call, c, outcome) ==
    IF outcome.kind = "response"
    THEN [call |-> [call EXCEPT !.net = outcome, !.result = outcome, !.pc = "done"],
          caches |-> IF outcome.status = 200
                     THEN CachePut(CachesOpen(c, call.cacheName), call.cacheName,
                                   call.request.url, outcome)
                     ELSE c]
    ELSE LET opened == CachesOpen(c, call.cacheName)
             cached == CacheMatch(opened, call.cacheName, call.request.url)
         IN  [call |-> [call EXCEPT !.net = outcome, !.cached = cached, !.pc = "done",
                                    !.result = IF cached.kind = "response"
                                               THEN cached ELSE outcome],
              caches |-> opened]

Fetched(call, c, outcome) ==
    CASE call.strategy = "cacheFirst" -> cacheFirstFetched(call, c, outcome)
      [] call.strategy = "staleWhileRevalidate" -> staleWhileRevalidateFetched(call, c, outcome)
      [] OTHER -> networkFirstFetched(call, c, outcome)

\* The fetch that lost the race of fetchWithTimeout (script.js 961-966):
\* Promise.race does not cancel it, so it is still in flight when the
\* timer has rejected the race.
Outstanding(call, outcome) ==
    IF outcome = TimeoutError THEN SetToBag({ Detached("late", call) }) ELSE EmptyBag

\* The fetchWithTimeout that call i awaits settles with outcome.
CallSettle(i, outcome) ==
    /\ handlers[i].pc = "net"
    /\ outcome \in fetchWithTimeout(handlers[i].timeout)
    /\ LET after == Fetched(handlers[i], caches, outcome)
       IN  /\ handlers' = [handlers EXCEPT ![i] = after.call]
           /\ caches' = after.caches
           /\ background' = background (+) Outstanding(handlers[i], outcome)
    /\ UNCHANGED <<ctlVars, sw, skipWaiting, inst, act, tasks, nFetch, nCmd>>

\* The awaited fetchWithTimeout settles.
CallFetch(i) ==
    \E outcome \in fetchWithTimeout(handlers[i].timeout) : CallSettle(i, outcome)

\* The timer of fetchWithTimeout fires before the network has answered.
CallTimeout(i) == CallSettle(i, TimeoutError)

\* The fetch that lost the race settles.  The strategies attached their
\* continuation to the race, which has already rejected (script.js 906,
\* 936, 961): nothing runs on the late outcome and nothing is put.
lateFetched(c, t, outcome) == c

LateSettle(t) ==
    /\ BagIn(t, background)
    /\ t.kind = "late"
    /\ \E outcome \in FetchOutcomes :
          /\ background' = Settle(t, outcome)
          /\ caches' = lateFetched(caches, t, outcome)
    /\ UNCHANGED <<ctlVars, sw, skipWaiting, inst, act, handlers, tasks, nFetch, nCmd>>

\* A faulty variant of updateCacheInBackground: the response is put
\* whatever its status.
updateCacheInBackgroundAnyStatus(c, t, outcome) ==
    IF outcome.kind = "response" THEN CachePut(c, t.cacheName, t.url, outcome) ELSE c

\* updateCacheInBackground (script.js 970-980): a plain fetch; only a
\* response of status 200 is put, everything else is dropped silently.
updateCacheInBackground(c, t, outcome) ==
    IF outcome.kind = "response" /\ outcome.status = 200
    THEN CachePut(c, t.cacheName, t.url, outcome)
    ELSE c

\* A faulty variant of revalidate: the fresh response is dropped.
revalidateDiscards(c, t, outcome) == c

\* The network promise of stale-while-revalidate after a hit (script.js
\* 922-927): the response is put whatever its status.
revalidate(c, t, outcome) ==
    IF outcome.kind = "response" THEN CachePut(c, t.cacheName, t.url, outcome) ELSE c

DetachedSettle(t) ==
    /\ BagIn(t, background)
    /\ \/ /\ t.kind = "refresh"
          /\ \E outcome \in FetchOutcomes :
                /\ caches' = updateCacheInBackground(caches, t, outcome)
                /\ background' = Settle(t, outcome)
       \/ /\ t.kind = "revalidate"
          /\ \E outcome \in fetchWithTimeout(DEFAULT_TIMEOUT) :
                /\ caches' = revalidate(caches, t, outcome)
                /\ background' = Settle(t, outcome)
    /\ UNCHANGED <<ctlVars, sw, skipWaiting, inst, act, handlers, tasks, nFetch, nCmd>>

(***************************************************************************)
(* Commands: the message listener (script.js 1020-1058).                   *)
(***************************************************************************)
\* A command handler in flight: one fetch per url; fetched[i] is the
\* outcome of the fetch of urls[i], Undefined while it is pending;
\* unhandled tells that a rejection escaped the handler.
Task(type, cacheName, urls) ==
    [type |-> type, cacheName |-> cacheName, urls |-> urls,
     fetched |-> [i \in DOMAIN urls |-> Undefined], unhandled |-> FALSE]

\* A faulty variant of cachePage: the page goes to the static partition.
cachePageIntoStatic(url) == Task("CACHE_PAGE", STATIC_CACHE, <<Local(url)>>)

\* cachePage(url): opens DYNAMIC_CACHE, then fetches the url.
cachePage(url) == Task("CACHE_PAGE", DYNAMIC_CACHE, <<Local(url)>>)

\* prefetchRoutes(routes): opens CRITICAL_CACHE, then starts one fetch per
\* route, all at once.
prefetchRoutes(routes) ==
    Task("PREFETCH_ROUTES", CRITICAL_CACHE, [i \in DOMAIN routes |-> Local(routes[i])])

\* event.data && event.data.type (script.js 1021).
HasType(data) == "type" \in DOMAIN data /\ data.type # ""

\* A faulty variant of OnMessage: the SKIP_WAITING case has no break and
\* falls through into CACHE_PAGE.
OnMessageFallsThrough(data) ==
    IF ~HasType(data)
    THEN [started |-> <<>>, opens |-> {}, skips |-> FALSE]
    ELSE CASE data.type = "SKIP_WAITING" ->
                 [started |-> <<cachePage(data.url)>>, opens |-> {DYNAMIC_CACHE},
                  skips |-> TRUE]
           [] data.type = "CACHE_PAGE" ->
                 [started |-> <<cachePage(data.url)>>, opens |-> {DYNAMIC_CACHE},
                  skips |-> FALSE]
           [] data.type = "PREFETCH_ROUTES" ->
                 [started |-> <<prefetchRoutes(data.routes)>>, opens |-> {CRITICAL_CACHE},
                  skips |-> FALSE]
           [] OTHER ->
                 [started |-> <<>>, opens |-> {}, skips |-> FALSE]

\* event.data.url as fetch and cache.put take it: a message without url
\* passes undefined, which both convert to the string "undefined" and
\* resolve against the worker's own URL.
UrlOf(data) == IF "url" \in DOMAIN data THEN data.url ELSE <<"/", "undefined">>

\* prefetchRoutes(undefined): the partition is opened, then routes.map
\* throws, the promise of the async function rejects and the listener,
\* which dropped it, never handles the rejection.
prefetchRoutesOfUndefined ==
    [Task("PREFETCH_ROUTES", CRITICAL_CACHE, <<>>) EXCEPT !.unhandled = TRUE]

\* The listener's switch: the handlers a message starts, the partition it
\* opens, and whether it calls self.skipWaiting().
OnMessage(data) ==
    IF ~HasType(data)
    THEN [started |-> <<>>, opens |-> {}, skips |-> FALSE]
    ELSE CASE data.type = "SKIP_WAITING" ->
                 [started |-> <<>>, opens |-> {}, skips |-> TRUE]
           [] data.type = "CACHE_PAGE" ->
                 [started |-> <<cachePage(UrlOf(data))>>, opens |-> {DYNAMIC_CACHE},
                  skips |-> FALSE]
           [] data.type = "PREFETCH_ROUTES" ->
                 [started |-> <<IF "routes" \in DOMAIN data
                                THEN prefetchRoutes(data.routes)
                                ELSE prefetchRoutesOfUndefined>>,
                  opens |-> {CRITICAL_CACHE}, skips |-> FALSE]
           [] OTHER ->
                 [started |-> <<>>, opens |-> {}, skips |-> FALSE]

RECURSIVE TaskFetches(_)
TaskFetches(ts) ==
    IF ts = <<>> THEN 0 ELSE Len(Head(ts).urls) + TaskFetches(Tail(ts))

Message(data) ==
    /\ sw \in {"installing", "installed", "activating", "activated"}
    /\ nCmd < MaxCommands
    /\ nCmd' = nCmd + 1
    /\ LET on == OnMessage(data)
       IN  /\ TaskFetches(tasks \o on.started) <= MaxTaskFetches
           /\ tasks' = tasks \o on.started
           /\ skipWaiting' = skipWaiting + (IF on.skips THEN 1 ELSE 0)
           /\ caches' = IF on.opens = {} THEN caches
                        ELSE CachesOpen(caches, CHOOSE n \in on.opens : TRUE)
    /\ UNCHANGED <<ctlVars, sw, inst, act, handlers, background, nFetch>>

\* cachePage after fetch (script.js 1039-1044): try { put } catch { log }.
cachePageFetched(task, c, i, outcome) ==
    [task |-> [task EXCEPT !.fetched[i] = outcome],
     caches |-> FetchAndPut(c, task.cacheName, task.urls[i], outcome)]

\* A faulty variant of prefetchRouteFetched: the routes share one chain
\* without a catch of their own, so a rejection escapes the handler.
prefetchRouteFetchedNoCatch(task, c, i, outcome) ==
    [task |-> [task EXCEPT !.fetched[i] = outcome,
                           !.unhandled = @ \/ outcome.kind = "error"],
     caches |-> FetchAndPut(c, task.cacheName, task.urls[i], outcome)]

\* prefetchRoutes after the fetch of route i (script.js 1052-1056): each
\* route has its own .then(put).catch(() => {}).
prefetchRouteFetched(task, c, i, outcome) ==
    [task |-> [task EXCEPT !.fetched[i] = outcome],
     caches |-> FetchAndPut(c, task.cacheName, task.urls[i], outcome)]

TaskFetched(task, c, i, outcome) ==
    IF task.type = "CACHE_PAGE"
    THEN cachePageFetched(task, c, i, outcome)
    ELSE prefetchRouteFetched(task, c, i, outcome)

\* The outcomes of the plain fetch of a command handler: the page as it
\* is deployed or as it was redeployed since (body 1 or 2), a status that
\* is not ok, or a rejection.
CommandOutcomes == { Resp(200, 1), Resp(200, 2), Resp(404, 1), NetworkError }

TaskSettle(t, i) ==
    /\ tasks[t].fetched[i] = Undefined
    /\ \E outcome \in CommandOutcomes :
          LET after == TaskFetched(tasks[t], caches, i, outcome)
          IN  /\ tasks' = [tasks EXCEPT ![t] = after.task]
              /\ caches' = after.caches
    /\ UNCHANGED <<ctlVars, sw, skipWaiting, inst, act, handlers, background, nFetch, nCmd>>

(***************************************************************************)
(* The page: URLs as the optimizer sees them.  An href is a sequence of    *)
(* tokens: an optional scheme ("https://") or "//" with a host, then the   *)
(* path; a relative href starts with "/", "./" or "../".                   *)
(***************************************************************************)
PageHost == "dynamicsolutions.example"
PageOrigin == <<"https://", PageHost>>

\* The href property of an anchor: its attribute resolved against the
\* document, which is /home/index.html.
Resolve(attr) ==
    CASE attr[1] = "https://" -> attr
      [] attr[1] = "//" -> <<"https://">> \o Tail(attr)
      [] attr[1] = "/" -> PageOrigin \o attr
      [] attr[1] = "../" -> PageOrigin \o <<"/">> \o Tail(attr)
      [] attr[1] = "./" -> PageOrigin \o <<"/", "home/">> \o Tail(attr)

\* new URL(href, window.location.origin).origin
OriginOf(href) ==
    CASE href[1] = "https://" -> <<href[1], href[2]>>
      [] href[1] = "//" -> <<"https://", href[2]>>
      [] OTHER -> PageOrigin

\* A faulty variant of isInternalLink: every href that parses is internal.
isInternalLinkAnyOrigin(href) == TRUE

\* isInternalLink (part_001 523-530).
isInternalLink(href) == OriginOf(href) = PageOrigin

\* The anchors of the page, in document order: nav tells whether the
\* anchor is inside a nav, .navigation or .menu container.
Anchors ==
    << [attr |-> <<"/", "about/index.html">>, nav |-> TRUE],
       [attr |-> <<"../", "assessment/index.html">>, nav |-> TRUE],
       [attr |-> <<"//", "cdn.partner.example", "/", "widget.html">>, nav |-> TRUE],
       [attr |-> <<"https://", "wa.me", "/", "5511999990000">>, nav |-> FALSE],
       [attr |-> <<"https://", PageHost, "/", "about/index.html">>, nav |-> FALSE] >>

\* a[href^="/"], a[href^="./"], a[href^="../"]  (part_001 117, 543)
RelativeSelector(anchor) == anchor.attr[1] \in {"/", "//", "./", "../"}

Link(rel, href) == [rel |-> rel, href |-> href]

\* The hints of setupResourceHints (part_001 55-62).
BootHints ==
    << Link("preconnect", <<"https://", "fonts.googleapis.com">>),
       Link("preconnect", <<"https://", "fonts.gstatic.com">>),
       Link("dns-prefetch", <<"//", "cdnjs.cloudflare.com">>),
       Link("prefetch", <<"/", "about/index.html">>),
       Link("prefetch", <<"/", "assessment/index.html">>),
       Link("preload", <<"/", "image/Logo oficial.png">>) >>

\* The preloads of optimizeWebFonts (part_001 418-433): appended when the
\* font's file name is not in resourceHints, and never added to it.
FontPreloads ==
    << [name |-> <<"Inter-400.woff2">>,
        link |-> Link("preload", <<"/", "fonts/Inter-400.woff2">>)],
       [name |-> <<"Playfair-Display-700.woff2">>,
        link |-> Link("preload", <<"/", "fonts/Playfair-Display-700.woff2">>)] >>

\* The DOM side of the optimizer: the hint set and the head's links.
Dom(hints, links) == [resourceHints |-> hints, head |-> links]

\* setupResourceHints (part_001 64-77): one link per hint not yet hinted.
RECURSIVE setupResourceHints(_, _)
setupResourceHints(dom, hints) ==
    IF hints = <<>> THEN dom
    ELSE LET hint == Head(hints)
             next == IF hint.href \notin dom.resourceHints
                     THEN Dom(dom.resourceHints \cup {hint.href},
                              dom.head (+) SetToBag({hint}))
                     ELSE dom
         IN  setupResourceHints(next, Tail(hints))

RECURSIVE optimizeWebFonts(_, _)
optimizeWebFonts(dom, fonts) ==
    IF fonts = <<>> THEN dom
    ELSE LET font == Head(fonts)
             next == IF font.name \notin dom.resourceHints
                     THEN Dom(dom.resourceHints, dom.head (+) SetToBag({font.link}))
                     ELSE dom
         IN  optimizeWebFonts(next, Tail(fonts))

\* A faulty variant of prefetchResource: the hint set is not consulted.
prefetchResourceNoDedup(dom, href) ==
    IF isInternalLink(href)
    THEN Dom(dom.resourceHints \cup {href}, dom.head (+) SetToBag({Link("prefetch", href)}))
    ELSE dom

\* prefetchResource (part_001 532-540).
prefetchResource(dom, href) ==
    IF href \notin dom.resourceHints /\ isInternalLink(href)
    THEN Dom(dom.resourceHints \cup {href}, dom.head (+) SetToBag({Link("prefetch", href)}))
    ELSE dom

\* links.forEach(link => this.prefetchResource(link.href))
RECURSIVE prefetchEach(_, _)
prefetchEach(dom, links) ==
    IF links = <<>> THEN dom
    ELSE prefetchEach(prefetchResource(dom, Resolve(Head(links).attr)), Tail(links))

(***************************************************************************)
(* The optimizer's metrics.                                                *)
(***************************************************************************)
\* A faulty variant of InitialMetrics: signals not yet seen are unset.
InitialMetricsUnset == [fcp |-> -1, lcp |-> -1, fid |-> -1, cls |-> 0, ttfb |-> -1]

\* this.metrics as the constructor sets it (part_001 6-12).
InitialMetrics == [fcp |-> 0, lcp |-> 0, fid |-> 0, cls |-> 0, ttfb |-> 0]

\* performance.getEntriesByType('navigation'): no entry or one.
NavigationEntries ==
    { <<>> } \cup
    { <<[requestStart |-> a, responseStart |-> b]>> : a \in 0..MaxTime, b \in 0..MaxTime }

\* measureCustomMetrics (part_001 340-346).
measureCustomMetrics(m, navigation) ==
    IF navigation # <<>>
    THEN [m EXCEPT !.ttfb = navigation[1].responseStart - navigation[1].requestStart]
    ELSE m

(***************************************************************************)
(* The optimizer's bootstrap, worker registration and lazy elements.       *)
(***************************************************************************)
\* The steps of init, in the order it calls them (part_001 22-34).
InitSteps ==
    << "injectCriticalCSS", "setupResourceHints", "initServiceWorker",
       "setupIntelligentPrefetching", "optimizeRendering",
       "setupPerformanceMonitoring", "implementVirtualScrolling",
       "optimizeWebFonts", "setupImageOptimization", "initWebWorkers" >>

\* A faulty variant of initServiceWorker: a plain function without the
\* feature test, so that register is called on undefined and throws.
initServiceWorkerUnguarded(supported) ==
    [registration |-> IF supported THEN "pending" ELSE "unsupported",
     throws |-> ~supported]

\* initServiceWorker up to its first await (part_001 81-87): without
\* navigator.serviceWorker nothing is done; with it register is called and
\* awaited.  An async function never throws into its caller.
initServiceWorker(supported) ==
    [registration |-> IF supported THEN "pending" ELSE "unsupported",
     throws |-> FALSE]

\* init: the steps run in order; a step that throws ends init there.
init(supported) ==
    LET started == initServiceWorker(supported)
        last == IF started.throws THEN 2 ELSE Len(InitSteps)
    IN  [registration |-> started.registration,
         unhandled |-> started.throws,
         bootstrap |-> { InitSteps[k] : k \in 1..last }]

\* initServiceWorker after the await (part_001 83-107): a registration gets
\* the updatefound and message listeners; a rejection is caught and logged.
registerSettled(outcome) ==
    IF outcome = "resolved"
    THEN [registration |-> "registered", unhandled |-> FALSE]
    ELSE [registration |-> "failed", unhandled |-> FALSE]

\* A faulty variant of statechange: the controller is not looked at.
statechangeWithoutController(state, controlled) == state = "installed"

\* The statechange listener (part_001 92-97): whether it calls
\* showUpdateNotification.
statechange(state, controlled) == state = "installed" /\ controlled

\* The elements the page offers to setupLazyLoading
\* ('[data-lazy], [loading="lazy"]', part_001 271): an image with a
\* deferred source, a block with deferred content, and an image that has
\* only the loading attribute.  "" stands for an absent attribute.
LazyElement(dataSrc, dataLazy) ==
    [observed |-> TRUE, dataSrc |-> dataSrc, dataLazy |-> dataLazy,
     src |-> "", innerHTML |-> "", loaded |-> FALSE, calls |-> 0, swaps |-> 0]

LazyElements ==
    << LazyElement("/image/team.jpg", ""),
       LazyElement("", "<p>case studies</p>"),
       LazyElement("", "") >>

\* startAnimation and stopAnimation (part_001 205-214) on the loop's flag
\* and the callbacks requestAnimationFrame holds.
startAnimation(loop) ==
    IF ~loop.isAnimating
    THEN [isAnimating |-> TRUE, frames |-> loop.frames + 1]
    ELSE loop

stopAnimation(loop) == [loop EXCEPT !.isAnimating = FALSE]

\* setupRAFAnimations (part_001 183-224) ends with startAnimation().
setupRAFAnimations == startAnimation([isAnimating |-> FALSE, frames |-> 0])

\* The keys of modalData the page's cards pass to openModal, and the
\* services of the discovery system (script.js 79, 517-521).
ModalTypes == {"agentes", "apps"}
ServiceIds == {"service1", "service2", "service3"}
totalServices == 3
totalDetails == 3

\* The capabilities page once its script has run and DOMContentLoaded has
\* initialised the discovery system (script.js 754-769, viewport of at
\* most 768 px).
SiteLoaded ==
    /\ modal = [active |-> FALSE, overflow |-> "", body |-> ""]
    /\ revealed = {}
    /\ badges = [o \in ServiceIds |-> ""]
    /\ ripples = 0
    /\ discovered = {}
    /\ servicesRevealed = 0
    /\ detailsDiscovered = 0
    /\ rewards = [mastery |-> "none", ultimate |-> "none"]

\* The state the constructor leaves (part_001 5-34) on a page where
\* service workers are supported or not, controlled by a worker or not.
ConstructedOn(navigation, supported, controlled) ==
    /\ LET page == init(supported)
       IN  /\ registration = page.registration
           /\ unhandled = page.unhandled
           /\ bootstrap = page.bootstrap
    /\ workers = <<>>
    /\ controller = controlled
    /\ notifications = <<>>
    /\ reloads = 0
    /\ lazy = LazyElements
    /\ LET loop == IF "optimizeRendering" \in init(supported).bootstrap
                   THEN setupRAFAnimations
                   ELSE [isAnimating |-> FALSE, frames |-> 0]
       IN  isAnimating = loop.isAnimating /\ frames = loop.frames
    /\ hidden = FALSE
    /\ animateIn = FALSE
    /\ SiteLoaded
    /\ metrics = measureCustomMetrics(InitialMetrics, navigation)
    /\ clsScore = 0
    /\ received = IF navigation # <<>> THEN {"ttfb"} ELSE {}
    /\ snapshot = <<>>
    /\ LET dom == optimizeWebFonts(setupResourceHints(Dom({}, EmptyBag), BootHints),
                                   FontPreloads)
       IN  resourceHints = dom.resourceHints /\ head = dom.head
    /\ requested = EmptyBag
    /\ hoverTimer = <<>>
    /\ inThrottle = FALSE

\* The same on a page that supports service workers and that no worker
\* controls yet.
Constructed(navigation) == ConstructedOn(navigation, TRUE, FALSE)

(***************************************************************************)
(* The service worker as a whole.                                          *)
(***************************************************************************)
Init ==
    /\ sw = "parsed"
    /\ skipWaiting = 0
    /\ \E left \in SUBSET LeftoverCaches : caches = [n \in left |-> EmptyCache]
    /\ inst = [addAll |-> "idle", failed |-> {}, fonts |-> [i \in DOMAIN FontUrls |-> "idle"]]
    /\ act = [keys |-> {}, pruned |-> FALSE,
              warm |-> [i \in DOMAIN WarmupPages |-> "idle"]]
    /\ handlers = <<>>
    /\ background = EmptyBag
    /\ tasks = <<>>
    /\ nFetch = 0
    /\ nCmd = 0
    /\ Constructed(<<>>)

\* Install and activate.
Next ==
    \/ InstallStart
    \/ AddAllSettle
    \/ \E i \in DOMAIN FontUrls : FontSettle(i)
    \/ InstallDone
    \/ ActivateStart
    \/ ActivatePrune
    \/ \E i \in DOMAIN WarmupPages : WarmupSettle(i)
    \/ ActivateDone

Spec == Init /\ [][Next]_vars

\* Where install and activate leave the worker when the network answers
\* the precache and nothing else: the nine precached entries in the
\* critical partition, an empty static partition, no dynamic partition.
Activated ==
    /\ sw = "activated"
    /\ skipWaiting = 1
    /\ \E body \in Bodies :
          caches = addAll((CRITICAL_CACHE :> EmptyCache) @@ (STATIC_CACHE :> EmptyCache),
                          TRUE, body)
    /\ inst = [addAll |-> "stored", failed |-> {},
               fonts |-> [i \in DOMAIN FontUrls |-> "failed"]]
    /\ act = [keys |-> {CRITICAL_CACHE, STATIC_CACHE}, pruned |-> TRUE,
              warm |-> [i \in DOMAIN WarmupPages |-> "failed"]]

\* Request handling by the active worker.
InitFetch ==
    /\ Activated
    /\ handlers = <<>>
    /\ background = EmptyBag
    /\ tasks = <<>>
    /\ nFetch = 0
    /\ nCmd = 0
    /\ Constructed(<<>>)

NextFetch ==
    \/ \E request \in FetchRequests : FetchEvent(request)
    \/ \E i \in DOMAIN handlers : CallOpen(i) \/ CallMatch(i) \/ CallFetch(i)
    \/ \E t \in BagToSet(background) : DetachedSettle(t)

SpecFetch == InitFetch /\ [][NextFetch]_vars

\* Request handling followed past the timeout: the fetches that lost the
\* race of fetchWithTimeout settle too.
NextLate ==
    \/ \E request \in FetchRequests : FetchEvent(request)
    \/ \E i \in DOMAIN handlers : CallOpen(i) \/ CallMatch(i) \/ CallFetch(i)
    \/ \E t \in BagToSet(background) : LateSettle(t)

SpecLate == InitFetch /\ [][NextLate]_vars

\* The whole life of one worker next to the partitions of other versions:
\* install and activate, then at most MaxEvents fetch events and messages
\* to the active worker, one request per strategy and one message per
\* command handler.
VersionRequests ==
    { Request("GET", Local(<<"/", "about", "/", "index.html">>), "document"),
      Request("GET", Local(<<"/", "capabilities", "/", "styles.css">>), "style"),
      Request("GET", Local(<<"/", "data", "/", "metrics.json">>), "") }

VersionMessages ==
    { [type |-> "CACHE_PAGE", url |-> <<"/", "services", "/", "cloud.html">>, routes |-> <<>>],
      [type |-> "PREFETCH_ROUTES", url |-> <<>>,
       routes |-> << <<"/", "services", "/", "cloud.html">> >>] }

NextVersions ==
    \/ Next
    \/ /\ nFetch + nCmd < MaxEvents
       /\ \E request \in VersionRequests : FetchEvent(request)
    \/ \E i \in DOMAIN handlers : CallOpen(i) \/ CallMatch(i) \/ CallFetch(i)
    \/ \E t \in BagToSet(background) : DetachedSettle(t)
    \/ /\ sw = "activated"
       /\ nFetch + nCmd < MaxEvents
       /\ \E data \in VersionMessages : Message(data)
    \/ \E t \in DOMAIN tasks : \E i \in DOMAIN tasks[t].urls : TaskSettle(t, i)

SpecVersions == Init /\ [][NextVersions]_vars

\* The command channel of the active worker.
NextCommands ==
    \/ \E data \in Messages : Message(data)
    \/ \E t \in DOMAIN tasks : \E i \in DOMAIN tasks[t].urls : TaskSettle(t, i)

SpecCommands == InitFetch /\ [][NextCommands]_vars

(***************************************************************************)
(* The optimizer: predictive prefetch (part_001 112-142, 500-551).         *)
(***************************************************************************)
RECURSIVE Hrefs(_)
Hrefs(links) ==
    IF links = <<>> THEN EmptyBag
    ELSE SetToBag({Resolve(Head(links).attr)}) (+) Hrefs(Tail(links))

\* prefetchResource is called for each of links, in order.
Prefetch(links) ==
    /\ BagCardinality(requested) + Len(links) <= MaxPrefetchCalls
    /\ requested' = requested (+) Hrefs(links)
    /\ LET dom == prefetchEach(Dom(resourceHints, head), links)
       IN  resourceHints' = dom.resourceHints /\ head' = dom.head

\* The intersection observer reports the navigation container: every
\* relative link inside it is prefetched (part_001 114-123).
NavIntersecting ==
    /\ Prefetch(SelectSeq(Anchors, LAMBDA a : a.nav /\ RelativeSelector(a)))
    /\ UNCHANGED <<swVars, pageVars, metrics, clsScore, received, snapshot, hoverTimer, inThrottle>>

\* A faulty variant of debounce: the pending timer is not cleared, so
\* every call keeps a timer of its own.
debounceKeepsTimers(timers, event) == Append(timers, event)

\* debounce (part_001 500-510): a call clears the pending timer and sets a
\* new one that holds the arguments of this call.
debounce(timers, event) == <<event>>

\* A mouseover event on anchor target (0: an element outside any anchor):
\* debounce restarts its 100 ms timer with this event (part_001 131-136).
MouseOver(target) ==
    /\ hoverTimer' = debounce(hoverTimer, target)
    /\ Len(hoverTimer') <= MaxTimers
    /\ hoverTimer' # hoverTimer
    /\ UNCHANGED <<swVars, pageVars, metrics, clsScore, received, snapshot, resourceHints, head,
                   requested, inThrottle>>

\* The links the hover handler prefetches (part_001 131-136).
HoverLinks(target) ==
    IF target # 0 /\ isInternalLink(Resolve(Anchors[target].attr))
    THEN <<Anchors[target]>>
    ELSE <<>>

\* The debounce timer fires and the hover handler runs.
HoverTimerFires ==
    /\ hoverTimer # <<>>
    /\ hoverTimer' = Tail(hoverTimer)
    /\ Prefetch(HoverLinks(Head(hoverTimer)))
    /\ UNCHANGED <<swVars, pageVars, metrics, clsScore, received, snapshot, inThrottle>>

\* A faulty variant of throttle: the function runs on every call.
throttleRunsEveryCall(closed) == [runs |-> TRUE, closed |-> TRUE]

\* throttle (part_001 512-521): a call runs the function only while the
\* throttle is open, and closes it; a call while it is closed does nothing.
throttle(closed) == [runs |-> ~closed, closed |-> TRUE]

\* A scroll event: while the throttle is open prefetchVisibleLinks runs
\* over the relative links near the viewport and the throttle closes for
\* 200 ms; while it is closed the event is dropped (part_001 139-141,
\* 542-551).
Scroll(visible) ==
    /\ inThrottle' = throttle(inThrottle).closed
    /\ IF throttle(inThrottle).runs
       THEN Prefetch(SelectSeq(Anchors, LAMBDA a : RelativeSelector(a) /\ a \in visible))
       ELSE UNCHANGED <<requested, resourceHints, head>>
    /\ UNCHANGED <<swVars, pageVars, metrics, clsScore, received, snapshot, hoverTimer>>

\* The 200 ms timer of throttle reopens it.
ThrottleTimerFires ==
    /\ inThrottle
    /\ inThrottle' = FALSE
    /\ UNCHANGED <<swVars, pageVars, metrics, clsScore, received, snapshot, resourceHints, head,
                   requested, hoverTimer>>

AnchorSet == { Anchors[i] : i \in DOMAIN Anchors }

NextPrefetch ==
    \/ NavIntersecting
    \/ \E target \in 0..Len(Anchors) : MouseOver(target)
    \/ HoverTimerFires
    \/ \E visible \in SUBSET AnchorSet : Scroll(visible)
    \/ ThrottleTimerFires

SpecPrefetch == InitFetch /\ [][NextPrefetch]_vars

(***************************************************************************)
(* The optimizer: metrics collection (part_001 303-346, 597-599).          *)
(***************************************************************************)
Times == 1..MaxTime

\* The entry lists the performance observers deliver.
PaintLists ==
    UNION { [1..n -> [name : {"first-paint", "first-contentful-paint"}, startTime : Times]]
            : n \in 1..2 }

LargestPaintLists == UNION { [1..n -> [startTime : Times]] : n \in 1..2 }

FirstInputLists ==
    [1..1 -> [name : {"pointerdown", "keydown"}, startTime : Times,
              processingStart : { t + 1 : t \in Times }]]

LayoutShiftLists == UNION { [1..n -> [hadRecentInput : BOOLEAN, value : {1}]] : n \in 1..2 }

Last(entries) == entries[Len(entries)]

\* The paint observer (part_001 305-309).
PaintObserved(entries) ==
    /\ metrics' = [metrics EXCEPT !.fcp = Last(entries).startTime]
    /\ received' = received \cup {"fcp"}
    /\ UNCHANGED <<swVars, pageVars, clsScore, snapshot, resourceHints, head, requested,
                   hoverTimer, inThrottle>>

\* The largest-contentful-paint observer (part_001 312-316).
LargestPaintObserved(entries) ==
    /\ metrics' = [metrics EXCEPT !.lcp = Last(entries).startTime]
    /\ received' = received \cup {"lcp"}
    /\ UNCHANGED <<swVars, pageVars, clsScore, snapshot, resourceHints, head, requested,
                   hoverTimer, inThrottle>>

\* The first-input observer (part_001 319-326): fid is set from the entries
\* whose name is 'first-input'.
RECURSIVE firstInput(_, _)
firstInput(m, entries) ==
    IF entries = <<>> THEN m
    ELSE LET entry == Head(entries)
         IN  firstInput(IF entry.name = "first-input"
                        THEN [m EXCEPT !.fid = entry.processingStart - entry.startTime]
                        ELSE m,
                        Tail(entries))

FirstInputObserved(entries) ==
    /\ metrics' = firstInput(metrics, entries)
    /\ received' = received \cup {"fid"}
    /\ UNCHANGED <<swVars, pageVars, clsScore, snapshot, resourceHints, head, requested,
                   hoverTimer, inThrottle>>

\* A faulty variant of layoutShift: cls is the value of the latest shift.
RECURSIVE layoutShiftLatest(_, _)
layoutShiftLatest(st, entries) ==
    IF entries = <<>> THEN st
    ELSE LET entry == Head(entries)
         IN  layoutShiftLatest(IF ~entry.hadRecentInput
                               THEN [score |-> entry.value, cls |-> entry.value]
                               ELSE st,
                               Tail(entries))

\* The layout-shift observer (part_001 329-337).
RECURSIVE layoutShift(_, _)
layoutShift(st, entries) ==
    IF entries = <<>> THEN st
    ELSE LET entry == Head(entries)
         IN  layoutShift(IF ~entry.hadRecentInput
                         THEN [score |-> st.score + entry.value,
                               cls |-> st.score + entry.value]
                         ELSE st,
                         Tail(entries))

LayoutShiftObserved(entries) ==
    /\ LET st == layoutShift([score |-> clsScore, cls |-> metrics.cls], entries)
       IN  /\ st.score <= MaxCls
           /\ clsScore' = st.score
           /\ metrics' = [metrics EXCEPT !.cls = st.cls]
    /\ received' = received \cup {"cls"}
    /\ UNCHANGED <<swVars, pageVars, snapshot, resourceHints, head, requested, hoverTimer, inThrottle>>

\* getMetrics (part_001 597-599).
getMetrics == metrics

GetMetricsCalled ==
    /\ snapshot' = <<getMetrics>>
    /\ snapshot' # snapshot
    /\ UNCHANGED <<swVars, pageVars, metrics, clsScore, received, resourceHints, head, requested,
                   hoverTimer, inThrottle>>

InitMetrics ==
    /\ \E navigation \in NavigationEntries : Constructed(navigation)
    /\ sw = "parsed"
    /\ skipWaiting = 0
    /\ caches = <<>>
    /\ inst = [addAll |-> "idle", failed |-> {}, fonts |-> [i \in DOMAIN FontUrls |-> "idle"]]
    /\ act = [keys |-> {}, pruned |-> FALSE,
              warm |-> [i \in DOMAIN WarmupPages |-> "idle"]]
    /\ handlers = <<>>
    /\ background = EmptyBag
    /\ tasks = <<>>
    /\ nFetch = 0
    /\ nCmd = 0

NextMetrics ==
    \/ \E entries \in PaintLists : PaintObserved(entries)
    \/ \E entries \in LargestPaintLists : LargestPaintObserved(entries)
    \/ \E entries \in FirstInputLists : FirstInputObserved(entries)
    \/ \E entries \in LayoutShiftLists : LayoutShiftObserved(entries)
    \/ GetMetricsCalled

SpecMetrics == InitMetrics /\ [][NextMetrics]_vars

(***************************************************************************)
(* The optimizer: registration, update notices and lazy loading            *)
(* (part_001 81-109, 257-289, 569-594).                                    *)
(***************************************************************************)
optCore ==
    <<metrics, clsScore, received, snapshot, resourceHints, head, requested,
      hoverTimer, inThrottle>>

optVars == <<optCore, uiVars>>

\* The promise of navigator.serviceWorker.register settles.
RegisterSettles ==
    /\ reloads = 0
    /\ registration = "pending"
    /\ \E outcome \in {"resolved", "rejected"} :
          LET after == registerSettled(outcome)
          IN  /\ registration' = after.registration
              /\ unhandled' = (unhandled \/ after.unhandled)
    /\ UNCHANGED <<swVars, optVars, bootstrap, workers, controller, notifications,
                   reloads, lazy>>

\* updatefound (part_001 90-91): the listener takes registration.installing
\* and listens to its state changes.  A registration has one installing
\* worker at a time.
UpdateFound ==
    /\ reloads = 0
    /\ registration = "registered"
    /\ \A w \in DOMAIN workers : workers[w] # "installing"
    /\ Len(workers) < MaxUpdates
    /\ workers' = Append(workers, "installing")
    /\ UNCHANGED <<swVars, optVars, registration, unhandled, bootstrap, controller,
                   notifications, reloads, lazy>>

\* The states a worker can change to.
NextStates(state) ==
    CASE state = "installing" -> {"installed", "redundant"}
      [] state = "installed" -> {"activating", "redundant"}
      [] state = "activating" -> {"activated", "redundant"}
      [] state = "activated" -> {"redundant"}
      [] OTHER -> {}

\* showUpdateNotification (part_001 569-594): the notice is appended to the
\* body, with its click handler and its 5000 ms timer.
showUpdateNotification(notices) == Append(notices, "shown")

\* A statechange event of worker w and the listener's reaction.  A worker
\* that has activated claims the page (script.js 847).
StateChange(w) ==
    /\ reloads = 0
    /\ \E state \in NextStates(workers[w]) :
          /\ workers' = [workers EXCEPT ![w] = state]
          /\ notifications' = IF statechange(state, controller)
                              THEN showUpdateNotification(notifications)
                              ELSE notifications
          /\ controller' = (controller \/ state = "activated")
    /\ UNCHANGED <<swVars, optVars, registration, unhandled, bootstrap, reloads, lazy>>

\* The timer of notice n expires: notification.remove() (part_001 591-593).
NoticeTimerFires(n) ==
    /\ reloads = 0
    /\ notifications[n] = "shown"
    /\ notifications' = [notifications EXCEPT ![n] = "removed"]
    /\ UNCHANGED <<swVars, optVars, registration, unhandled, bootstrap, workers,
                   controller, reloads, lazy>>

\* The user clicks notice n, which is still in the body: its onclick calls
\* window.location.reload() (part_001 585-587) and the page is left.
NoticeClicked(n) ==
    /\ reloads = 0
    /\ notifications[n] = "shown"
    /\ notifications' = [notifications EXCEPT ![n] = "clicked"]
    /\ reloads' = reloads + 1
    /\ UNCHANGED <<swVars, optVars, registration, unhandled, bootstrap, workers,
                   controller, lazy>>

\* loadElement (part_001 276-289).
loadElement(element) ==
    LET sourced == IF element.dataSrc # ""
                   THEN [element EXCEPT !.src = element.dataSrc, !.dataSrc = "",
                                        !.swaps = @ + 1]
                   ELSE element
        filled == IF sourced.dataLazy # ""
                  THEN [sourced EXCEPT !.innerHTML = sourced.dataLazy, !.dataLazy = "",
                                       !.swaps = @ + 1]
                  ELSE sourced
    IN  [filled EXCEPT !.loaded = TRUE, !.calls = @ + 1]

\* A faulty variant of lazyIntersecting: the element stays observed.
lazyIntersectingKeepsObserving(element) == loadElement(element)

\* The callback of lazyObserver for an entry that is intersecting
\* (part_001 260-263): loadElement, then unobserve.
lazyIntersecting(element) == [loadElement(element) EXCEPT !.observed = FALSE]

\* entries.forEach of the callback (part_001 259-264).
RECURSIVE lazyObserver(_, _)
lazyObserver(elements, entries) ==
    IF entries = <<>> THEN elements
    ELSE LET entry == Head(entries)
         IN  lazyObserver(IF entry.isIntersecting
                          THEN [elements EXCEPT ![entry.target] = lazyIntersecting(@)]
                          ELSE elements,
                          Tail(entries))

\* The entry lists the intersection observer can deliver: one entry per
\* change of a target's intersection since the last delivery, so a target
\* may occur more than once.
LazyEntryLists ==
    UNION { [1..n -> [target : DOMAIN LazyElements, isIntersecting : BOOLEAN]]
            : n \in 1..MaxEntries }

\* The observer delivers entries; all of their targets were observed when
\* the entries were queued.
LazyObserved(entries) ==
    /\ reloads = 0
    /\ "optimizeRendering" \in bootstrap
    /\ \A k \in DOMAIN entries :
          /\ lazy[entries[k].target].observed
          /\ lazy[entries[k].target].calls + Len(entries) <= MaxCalls
    /\ lazy' = lazyObserver(lazy, entries)
    /\ UNCHANGED <<swVars, optVars, registration, unhandled, bootstrap, workers,
                   controller, notifications, reloads>>

\* The visibilitychange listener (part_001 216-222): the page becomes
\* hidden and the loop is stopped, or visible and the loop is started.
VisibilityChange ==
    /\ "optimizeRendering" \in bootstrap
    /\ hidden' = ~hidden
    /\ LET loop == [isAnimating |-> isAnimating, frames |-> frames]
           next == IF hidden' THEN stopAnimation(loop) ELSE startAnimation(loop)
       IN  /\ next.frames <= MaxFrames
           /\ isAnimating' = next.isAnimating
           /\ frames' = next.frames
    /\ UNCHANGED <<swVars, optCore, pageCore, siteVars, animateIn>>

\* An animation frame of the visible page: every callback the frame holds
\* runs animate (part_001 186-203), which returns at once when the loop is
\* stopped and otherwise sets the element's class by whether it is in view
\* and requests the next frame.
AnimationFrame(inView) ==
    /\ ~hidden
    /\ frames > 0
    /\ frames' = IF isAnimating THEN frames ELSE 0
    /\ animateIn' = IF isAnimating THEN inView ELSE animateIn
    /\ UNCHANGED <<swVars, optCore, pageCore, siteVars, isAnimating, hidden>>

(***************************************************************************)
(* The capabilities page: the service modal (script.js 335-463).           *)
(***************************************************************************)
\* openModal: a type modalData does not know returns before anything is
\* touched; a known type fills the modal body, shows the overlay and locks
\* the page's scroll.
openModal(m, serviceType) ==
    IF serviceType \notin ModalTypes
    THEN m
    ELSE [active |-> TRUE, overflow |-> "hidden", body |-> serviceType]

\* A faulty variant of closeModal: the scroll lock is left in place.
closeModalKeepsLock(m) == [m EXCEPT !.active = FALSE]

\* closeModal: hides the overlay and releases the scroll.
closeModal(m) == [m EXCEPT !.active = FALSE, !.overflow = "visible"]

OpenModal(serviceType) ==
    /\ modal' = openModal(modal, serviceType)
    /\ UNCHANGED <<swVars, optCore, pageCore, rafVars, rewardVars>>

CloseModal ==
    /\ modal' = closeModal(modal)
    /\ UNCHANGED <<swVars, optCore, pageCore, rafVars, rewardVars>>

\* The click listener of the modal overlay (script.js 452-456): only a
\* click on the overlay itself closes, not one inside the modal.
ModalOverlayClicked(target) ==
    /\ modal' = IF target = "modalOverlay" THEN closeModal(modal) ELSE modal
    /\ UNCHANGED <<swVars, optCore, pageCore, rafVars, rewardVars>>

\* The keydown listener of the document (script.js 459-463).
KeyDown(key) ==
    /\ modal' = IF key = "Escape" THEN closeModal(modal) ELSE modal
    /\ UNCHANGED <<swVars, optCore, pageCore, rafVars, rewardVars>>

(***************************************************************************)
(* The capabilities page: discovery and rewards (script.js 468-703).       *)
(***************************************************************************)
\* The callback of the overlay observer for one mutation record (script.js
\* 580-591): a record whose target has the class revealed counts, and the
\* count that reaches totalServices schedules the mastery reward.
overlayObserver(count, rw, targetRevealed) ==
    IF targetRevealed
    THEN [servicesRevealed |-> count + 1,
          rewards |-> IF count + 1 = totalServices
                      THEN [rw EXCEPT !.mastery = "scheduled"]
                      ELSE rw]
    ELSE [servicesRevealed |-> count, rewards |-> rw]

\* A click on the overlay of service o (script.js 526-530): the event is
\* stopped, a ripple is created, and revealService adds the class revealed
\* and starts the badge's timer.  classList.add sets the class attribute
\* whether or not the token was there, so the observer gets one record
\* per click.
ServiceOverlayClicked(o) ==
    /\ ripples < MaxRipples
    /\ servicesRevealed < MaxReveals
    /\ ripples' = ripples + 1
    /\ revealed' = revealed \cup {o}
    /\ badges' = [badges EXCEPT ![o] = IF @ = "earned" THEN @ ELSE "pending"]
    /\ LET seen == overlayObserver(servicesRevealed, rewards, o \in revealed')
       IN  /\ servicesRevealed' = seen.servicesRevealed
           /\ rewards' = seen.rewards
    /\ UNCHANGED <<swVars, optCore, pageCore, rafVars, modal, discovered,
                   detailsDiscovered>>

\* The 400 ms timer of revealService (script.js 502-504).
BadgeTimerFires(o) ==
    /\ badges[o] = "pending"
    /\ badges' = [badges EXCEPT ![o] = "earned"]
    /\ UNCHANGED <<swVars, optCore, pageCore, rafVars, modal, revealed, ripples,
                   discovered, servicesRevealed, detailsDiscovered, rewards>>

\* The 600 ms timer of createServiceRipple removes the ripple (script.js
\* 486-490).
RippleTimerFires ==
    /\ ripples > 0
    /\ ripples' = ripples - 1
    /\ UNCHANGED <<swVars, optCore, pageCore, rafVars, modal, revealed, badges,
                   discovered, servicesRevealed, detailsDiscovered, rewards>>

\* The click listener of discovery zone z (script.js 537-567): the event is
\* stopped; a detail not yet discovered gets the class and a ripple.
zoneClick(found, z) ==
    [discovered |-> found \cup {z},
     ripple |-> z \notin found,
     stopped |-> TRUE]

\* The click listener of the document (script.js 602-617) for a click
\* inside zone z: a detail that is not discovered counts, and the count
\* that reaches totalDetails with every service revealed schedules the
\* ultimate reward.
documentClick(count, rw, services, found, z) ==
    IF z \notin found
    THEN [detailsDiscovered |-> count + 1,
          rewards |-> IF count + 1 = totalDetails /\ services = totalServices
                      THEN [rw EXCEPT !.ultimate = "scheduled"]
                      ELSE rw]
    ELSE [detailsDiscovered |-> count, rewards |-> rw]

\* A click inside discovery zone z: the zone's listener runs first, and
\* the document's listener runs only if the event still propagates.
ZoneClicked(z) ==
    LET zone == zoneClick(discovered, z)
        doc == IF zone.stopped
               THEN [detailsDiscovered |-> detailsDiscovered, rewards |-> rewards]
               ELSE documentClick(detailsDiscovered, rewards, servicesRevealed,
                                  zone.discovered, z)
    IN  /\ zone.ripple => ripples < MaxRipples
        /\ discovered' = zone.discovered
        /\ ripples' = IF zone.ripple THEN ripples + 1 ELSE ripples
        /\ detailsDiscovered' = doc.detailsDiscovered
        /\ rewards' = doc.rewards
        /\ UNCHANGED <<swVars, optCore, pageCore, rafVars, modal, revealed, badges,
                       servicesRevealed>>

\* The timer of a scheduled reward shows it (script.js 586-588, 612-614),
\* and the reward's own timer removes it (650-654, 694-698).
RewardTimerFires(r) ==
    /\ rewards[r] = "scheduled"
    /\ rewards' = [rewards EXCEPT ![r] = "shown"]
    /\ UNCHANGED <<swVars, optCore, pageCore, rafVars, modal, revealed, badges,
                   ripples, discovered, servicesRevealed, detailsDiscovered>>

RewardRemoved(r) ==
    /\ rewards[r] = "shown"
    /\ rewards' = [rewards EXCEPT ![r] = "removed"]
    /\ UNCHANGED <<swVars, optCore, pageCore, rafVars, modal, revealed, badges,
                   ripples, discovered, servicesRevealed, detailsDiscovered>>

\* The state of the worker that no page action touches.
IdleWorker ==
    /\ sw = "parsed"
    /\ skipWaiting = 0
    /\ caches = <<>>
    /\ inst = [addAll |-> "idle", failed |-> {}, fonts |-> [i \in DOMAIN FontUrls |-> "idle"]]
    /\ act = [keys |-> {}, pruned |-> FALSE,
              warm |-> [i \in DOMAIN WarmupPages |-> "idle"]]
    /\ handlers = <<>>
    /\ background = EmptyBag
    /\ tasks = <<>>
    /\ nFetch = 0
    /\ nCmd = 0

\* The page after bootstrap: worker updates, notices and lazy elements.
InitPage ==
    /\ IdleWorker
    /\ \E controlled \in BOOLEAN : ConstructedOn(<<>>, TRUE, controlled)

NextPage ==
    \/ RegisterSettles
    \/ UpdateFound
    \/ \E w \in DOMAIN workers : StateChange(w)
    \/ \E n \in DOMAIN notifications : NoticeTimerFires(n) \/ NoticeClicked(n)
    \/ \E entries \in LazyEntryLists : LazyObserved(entries)

SpecPage == InitPage /\ [][NextPage]_vars

\* Bootstrap with and without service worker support, and the page's
\* triggers afterwards.
InitBootstrap ==
    /\ IdleWorker
    /\ \E supported \in BOOLEAN : ConstructedOn(<<>>, supported, FALSE)

NextBootstrap ==
    \/ RegisterSettles
    \/ "setupIntelligentPrefetching" \in bootstrap /\ NavIntersecting
    \/ "setupIntelligentPrefetching" \in bootstrap
          /\ \E visible \in SUBSET AnchorSet : Scroll(visible)
    \/ "setupPerformanceMonitoring" \in bootstrap
          /\ \E entries \in PaintLists : PaintObserved(entries)
    \/ GetMetricsCalled
    \/ \E entries \in LazyEntryLists : LazyObserved(entries)

SpecBootstrap == InitBootstrap /\ [][NextBootstrap]_vars

(***************************************************************************)
(* Properties of request handling (SpecFetch).                             *)
(***************************************************************************)
\* The call i is about to learn that cache.match found its request in the
\* critical partition.
CacheFirstHit(i) ==
    /\ handlers[i].pc = "match"
    /\ handlers[i].strategy = "cacheFirst"
    /\ CacheMatch(caches, CRITICAL_CACHE, handlers[i].request.url).kind = "response"

\* C1: a cache-first call that finds its request in the critical partition
\* returns the cached response in that very step, without having awaited
\* any network outcome and without writing to a partition, and it starts
\* exactly one background refresh fetch for the request; a call that has
\* returned does nothing any more.
C1_CacheFirstHitReturnsCacheAndRefreshesOnce ==
    [][\A i \in DOMAIN handlers :
          /\ (CacheFirstHit(i) /\ handlers'[i] # handlers[i]) =>
                /\ handlers'[i].pc = "done"
                /\ handlers'[i].result =
                      CacheMatch(caches, CRITICAL_CACHE, handlers[i].request.url)
                /\ handlers'[i].net = Undefined
                /\ caches' = caches
                /\ background' = background (+)
                      SetToBag({ [kind |-> "refresh", url |-> handlers[i].request.url,
                                  cacheName |-> CRITICAL_CACHE] })
          /\ handlers[i].pc = "done" => handlers'[i] = handlers[i]
      ]_vars

\* A cache-first call has returned the cached copy and its one refresh.
C1_Witness ==
    \E i \in DOMAIN handlers :
        /\ handlers[i].strategy = "cacheFirst"
        /\ handlers[i].pc = "done"
        /\ handlers[i].cached.kind = "response"
        /\ handlers[i].result = handlers[i].cached
        /\ handlers[i].refreshes = 1

\* C2: when a cache-first call that missed the critical partition sees its
\* network attempt reject (a network error or the timeout), it does not
\* fail: it returns the synthetic response 'Offline' with status 503, and
\* the step writes nothing, so the partition still has no entry for the
\* request.
C2_CacheFirstOfflineResponse ==
    [][\A i \in DOMAIN handlers :
          ( /\ handlers[i].strategy = "cacheFirst"
            /\ handlers[i].pc = "net"
            /\ handlers'[i].pc = "done"
            /\ handlers'[i].net.kind = "error" ) =>
                /\ handlers'[i].result = Resp(503, 0)
                /\ caches' = caches
                /\ (handlers[i].request.url \notin DOMAIN caches[CRITICAL_CACHE]
                      => handlers[i].request.url \notin DOMAIN caches'[CRITICAL_CACHE])
      ]_vars

\* A cache-first call timed out on a request the partition does not hold.
C2_Witness ==
    \E i \in DOMAIN handlers :
        /\ handlers[i].strategy = "cacheFirst"
        /\ handlers[i].pc = "done"
        /\ handlers[i].net = TimeoutError
        /\ handlers[i].result = OfflineResponse
        /\ handlers[i].request.url \notin DOMAIN caches[CRITICAL_CACHE]

\* C3: when the network attempt of a network-first call rejects (a network
\* error or the timeout), the call returns the copy of the request held by
\* the dynamic partition at that moment, and when the partition holds none
\* the call fails with that very error: no synthetic response is made.
C3_NetworkFirstFallback ==
    [][\A i \in DOMAIN handlers :
          ( /\ handlers[i].strategy = "networkFirst"
            /\ handlers[i].pc = "net"
            /\ handlers'[i].pc = "done"
            /\ handlers'[i].net.kind = "error" ) =>
                LET held == CacheMatch(caches, DYNAMIC_CACHE, handlers[i].request.url)
                IN  /\ held.kind = "response" => handlers'[i].result = held
                    /\ held.kind # "response" =>
                          /\ handlers'[i].result.kind = "error"
                          /\ handlers'[i].result = handlers'[i].net
                    /\ handlers'[i].result # OfflineResponse
      ]_vars

\* A network-first call fell back to a copy stored by an earlier call.
C3_Witness ==
    \E i \in DOMAIN handlers :
        /\ handlers[i].strategy = "networkFirst"
        /\ handlers[i].pc = "done"
        /\ handlers[i].net.kind = "error"
        /\ handlers[i].result.kind = "response"
        /\ handlers[i].result = CacheMatch(caches, DYNAMIC_CACHE, handlers[i].request.url)

\* C4: a stale-while-revalidate call that found no cached copy and whose
\* network fetch delivered a response returns exactly that response, and
\* it returns no response other than the network's.
C4_StaleWhileRevalidateMiss ==
    \A i \in DOMAIN handlers :
        ( /\ handlers[i].strategy = "staleWhileRevalidate"
          /\ handlers[i].pc = "done"
          /\ handlers[i].cached.kind # "response" ) =>
              /\ handlers[i].net.kind = "response" => handlers[i].result = handlers[i].net
              /\ handlers[i].result.kind = "response" => handlers[i].result = handlers[i].net

\* A stale-while-revalidate call with an empty cache got the network's answer.
C4_Witness ==
    \E i \in DOMAIN handlers :
        /\ handlers[i].strategy = "staleWhileRevalidate"
        /\ handlers[i].pc = "done"
        /\ handlers[i].cached = Undefined
        /\ handlers[i].net.kind = "response"
        /\ handlers[i].result = handlers[i].net

\* The URL path equals an allowlist entry or ends with one (an entry is a
\* suffix of itself).
EndsWithCriticalPath(pathname) == \E path \in CriticalPaths : EndsWith(pathname, path)

\* What install stored, the only entries of the critical partition that no
\* fetch handler wrote.
Precached == { Local(p) : p \in PRECACHE_URLS }

\* C9 as stated: a request is handled cache-first exactly when its path is
\* an entry of the allowlist.
C9_Original ==
    \A i \in DOMAIN handlers :
        handlers[i].pc # "ignored" =>
            (handlers[i].strategy = "cacheFirst"
                <=> handlers[i].request.url.pathname \in CriticalPaths)

\* C9 (amended): a request is handled cache-first exactly when its path
\* equals or ends with an allowlist entry; a request whose path does not is
\* never given the critical partition, neither by a call nor by a detached
\* fetch, and never ends up stored in it.
C9_CriticalBySuffix ==
    /\ \A i \in DOMAIN handlers :
          handlers[i].pc # "ignored" =>
              /\ handlers[i].strategy = "cacheFirst"
                    <=> EndsWithCriticalPath(handlers[i].request.url.pathname)
              /\ handlers[i].cacheName = CRITICAL_CACHE
                    <=> EndsWithCriticalPath(handlers[i].request.url.pathname)
    /\ \A t \in BagToSet(background) :
          t.cacheName = CRITICAL_CACHE => EndsWithCriticalPath(t.url.pathname)
    /\ \A k \in DOMAIN caches[CRITICAL_CACHE] :
          k \in Precached \/ EndsWithCriticalPath(k.pathname)

\* A path that is no allowlist entry was handled cache-first and stored in
\* the critical partition.
C9_Witness ==
    \E i \in DOMAIN handlers :
        /\ handlers[i].request.url.pathname \notin CriticalPaths
        /\ handlers[i].strategy = "cacheFirst"
        /\ handlers[i].pc = "done"
        /\ handlers[i].request.url \in DOMAIN caches[CRITICAL_CACHE]

C12_Original ==
    [][\A t \in BagToSet(background') :
          ( /\ t.kind = "delivered"
            /\ ~BagIn(t, background)
            /\ t.outcome.kind = "response" ) =>
                CacheMatch(caches', t.cacheName, t.url) = t.outcome
      ]_vars

(***************************************************************************)
(* Properties of install and activate (Spec).                              *)
(***************************************************************************)
\* C5 as stated: once activation has completed, exactly the critical, the
\* static and the dynamic partition of the current version exist.
C5_Original ==
    sw = "activated" => DOMAIN caches = {CRITICAL_CACHE, STATIC_CACHE, DYNAMIC_CACHE}

\* C5 (amended): activation deletes every partition of its enumeration
\* whose name does not contain the version string and keeps every one whose
\* name contains it; it creates no partition but the critical one, so once
\* it has completed the partitions that exist are the enumerated ones with
\* the version string in their name, the critical one among them.
C5_PruneByVersionSubstring ==
    (sw \in {"activating", "activated"} /\ act.pruned) =>
        /\ \A n \in act.keys : ~Includes(n, CACHE_VERSION) => n \notin DOMAIN caches
        /\ \A n \in act.keys : Includes(n, CACHE_VERSION) => n \in DOMAIN caches
        /\ DOMAIN caches \subseteq act.keys \cup {CRITICAL_CACHE}
        /\ CRITICAL_CACHE \in DOMAIN caches

\* Activation has completed: a partition of version v1.2023 was deleted,
\* the one of v1.2024-b was kept, and there is no dynamic partition.
C5_Witness ==
    /\ sw = "activated"
    /\ \E n \in act.keys : ~Includes(n, CACHE_VERSION) /\ n \notin DOMAIN caches
    /\ \E n \in DOMAIN caches : n \notin {CRITICAL_CACHE, STATIC_CACHE, DYNAMIC_CACHE}
    /\ DYNAMIC_CACHE \notin DOMAIN caches

\* C11 as stated: when the fetch of one URL of the precache list fails
\* during install, the other URLs of the list are still stored in the
\* critical partition and the install step completes (the worker does not
\* become redundant).
C11_Original ==
    \A p \in PRECACHE_URLS :
        (sw # "installing" /\ inst.failed = {p}) =>
            /\ \A q \in PRECACHE_URLS \ {p} : Local(q) \in DOMAIN caches[CRITICAL_CACHE]
            /\ sw # "redundant"

(***************************************************************************)
(* Properties of the command channel (SpecCommands).                       *)
(***************************************************************************)
\* The partitions and entries other than entry key of partition name are
\* the same in c and d.
SameExcept(c, d, name, key) ==
    /\ DOMAIN c = DOMAIN d
    /\ \A n \in DOMAIN c :
          /\ n # name => c[n] = d[n]
          /\ n = name =>
                /\ (DOMAIN c[n]) \ {key} = (DOMAIN d[n]) \ {key}
                /\ \A k \in (DOMAIN c[n]) \ {key} : c[n][k] = d[n][k]

\* C6: PREFETCH_ROUTES treats each route on its own.  The step in which the
\* fetch of a route succeeds stores the fetched response under that route
\* in the critical partition and changes nothing else; the step in which
\* the fetch of a route fails writes nothing; neither touches the outcome
\* of another route of the list, whatever their positions; and no
\* rejection escapes the handler.
C6_PrefetchRoutesIndependent ==
    [][\A t \in DOMAIN tasks :
          tasks[t].type = "PREFETCH_ROUTES" =>
            /\ ~tasks'[t].unhandled
            /\ \A i \in DOMAIN tasks[t].urls :
                  LET before == tasks[t].fetched[i]
                      after == tasks'[t].fetched[i]
                      others == \A j \in DOMAIN tasks[t].urls :
                                   j # i => tasks'[t].fetched[j] = tasks[t].fetched[j]
                  IN  /\ before # Undefined => after = before
                      /\ (before = Undefined /\ after.kind = "response") =>
                            /\ CacheMatch(caches', CRITICAL_CACHE, tasks[t].urls[i]) = after
                            /\ SameExcept(caches, caches', CRITICAL_CACHE, tasks[t].urls[i])
                            /\ others
                      /\ (before = Undefined /\ after.kind = "error") =>
                            /\ caches' = caches
                            /\ others
      ]_vars

\* PREFETCH_ROUTES with two routes has settled: the fetch of the first
\* failed and it is absent from the critical partition, the fetch of the
\* second succeeded and it is present with the fetched response.
C6_Witness ==
    \E t \in DOMAIN tasks :
        /\ tasks[t].type = "PREFETCH_ROUTES"
        /\ Len(tasks[t].urls) = 2
        /\ tasks[t].fetched[1].kind = "error"
        /\ tasks[t].urls[1] \notin DOMAIN caches[CRITICAL_CACHE]
        /\ tasks[t].fetched[2].kind = "response"
        /\ CacheMatch(caches, CRITICAL_CACHE, tasks[t].urls[2]) = tasks[t].fetched[2]
        /\ ~tasks[t].unhandled

(***************************************************************************)
(* Properties of the optimizer (SpecPrefetch, SpecMetrics).                *)
(***************************************************************************)
\* The link.href values of the page's anchors.
AnchorHrefs == { Resolve(Anchors[i].attr) : i \in DOMAIN Anchors }

\* C7: whatever hover, viewport-entry and scroll-sampling triggers have
\* run, and however often prefetchResource was called with it, the head
\* holds at most one prefetch hint issued for the href of a link, and one
\* only when the href was asked for.
C7_PrefetchOncePerHref ==
    \A href \in AnchorHrefs :
        /\ CopiesIn(Link("prefetch", href), head) <= 1
        /\ CopiesIn(Link("prefetch", href), head) = 1 => BagIn(href, requested)

\* prefetchResource was called at least twice with an internal href, by a
\* viewport-entry, scroll or hover trigger, and the head holds one hint for it.
C7_Witness ==
    \E href \in AnchorHrefs :
        /\ isInternalLink(href)
        /\ CopiesIn(href, requested) >= 2
        /\ hoverTimer = <<>>
        /\ CopiesIn(Link("prefetch", href), head) = 1

\* C8: whenever getMetrics is called, before any signal or after some, it
\* returns a record of exactly the five fields fcp, lcp, fid, cls and
\* ttfb, and every field whose signal has not been reported is 0.
C8_MetricsBeforeSignals ==
    snapshot # <<>> =>
        /\ DOMAIN snapshot[1] = {"fcp", "lcp", "fid", "cls", "ttfb"}
        /\ \A f \in DOMAIN snapshot[1] : f \notin received => snapshot[1][f] = 0

\* getMetrics was called before any signal had arrived.
C8_Witness ==
    /\ snapshot # <<>>
    /\ received = {}
    /\ \A f \in {"fcp", "lcp", "fid", "cls", "ttfb"} : snapshot[1][f] = 0

(***************************************************************************)
(* Properties of the three strategies, step by step (SpecFetch).           *)
(***************************************************************************)
\* Call i leaves the await of its network fetch in this step.
NetworkSettles(i, strategy) ==
    /\ handlers[i].strategy = strategy
    /\ handlers[i].pc = "net"
    /\ handlers'[i].pc = "done"

\* C13: when the network answers a network-first call before the timeout,
\* the call returns the network response; a response of status 200 is
\* stored under the request in the dynamic partition (which is created if
\* it did not exist) and nothing else changes; a response of any other
\* status leaves the cache storage as it was.
C13_NetworkFirstSuccess ==
    [][\A i \in DOMAIN handlers :
          (NetworkSettles(i, "networkFirst") /\ handlers'[i].net.kind = "response") =>
              LET net == handlers'[i].net
                  url == handlers[i].request.url
              IN  /\ handlers'[i].result = net
                  /\ net.status = 200 =>
                        /\ CacheMatch(caches', DYNAMIC_CACHE, url) = net
                        /\ SameExcept(CachesOpen(caches, DYNAMIC_CACHE), caches',
                                      DYNAMIC_CACHE, url)
                  /\ net.status # 200 => caches' = caches
      ]_vars

\* One network-first call got a 200 that the dynamic partition now holds,
\* another got a 404 that was returned and not stored.
C13_Witness ==
    /\ \E i \in DOMAIN handlers :
          /\ handlers[i].strategy = "networkFirst"
          /\ handlers[i].pc = "done"
          /\ handlers[i].net.kind = "response"
          /\ handlers[i].net.status = 200
          /\ handlers[i].result = handlers[i].net
          /\ CacheMatch(caches, DYNAMIC_CACHE, handlers[i].request.url) = handlers[i].net
    /\ \E j \in DOMAIN handlers :
          /\ handlers[j].strategy = "networkFirst"
          /\ handlers[j].pc = "done"
          /\ handlers[j].net.kind = "response"
          /\ handlers[j].net.status = 404
          /\ handlers[j].result = handlers[j].net
          /\ CacheMatch(caches, DYNAMIC_CACHE, handlers[j].request.url) = Undefined

\* Detached fetch t of kind from settles in this step.
DetachedSettles(t, from) ==
    /\ t.kind = "delivered"
    /\ t.from = from
    /\ CopiesIn(t, background') > CopiesIn(t, background)

\* C14: a stale-while-revalidate call that finds a cached copy returns that
\* copy in the very step of the lookup, before any network outcome, and the
\* same step starts one network fetch for the request and writes nothing;
\* when that fetch later delivers a response, the response replaces the
\* entry of the request in the static partition and nothing else changes;
\* when it fails or times out the cache storage is left as it was.
C14_StaleWhileRevalidateHit ==
    [][/\ \A i \in DOMAIN handlers :
            LET call == handlers[i]
                held == CacheMatch(caches, STATIC_CACHE, call.request.url)
            IN  ( /\ call.strategy = "staleWhileRevalidate"
                  /\ call.pc = "match"
                  /\ handlers'[i] # call
                  /\ held.kind = "response" ) =>
                      /\ handlers'[i].pc = "done"
                      /\ handlers'[i].result = held
                      /\ handlers'[i].net = Undefined
                      /\ caches' = caches
                      /\ background' = background (+)
                            SetToBag({ [kind |-> "revalidate", url |-> call.request.url,
                                        cacheName |-> STATIC_CACHE] })
       /\ \A t \in BagToSet(background') :
            DetachedSettles(t, "revalidate") =>
                IF t.outcome.kind = "response"
                THEN /\ CacheMatch(caches', STATIC_CACHE, t.url) = t.outcome
                     /\ SameExcept(caches, caches', STATIC_CACHE, t.url)
                ELSE caches' = caches
      ]_vars

\* A stale-while-revalidate call returned the cached copy, and the fetch
\* it started has since replaced that copy with a different response.
C14_Witness ==
    \E i \in DOMAIN handlers :
        /\ handlers[i].strategy = "staleWhileRevalidate"
        /\ handlers[i].pc = "done"
        /\ handlers[i].cached.kind = "response"
        /\ handlers[i].result = handlers[i].cached
        /\ handlers[i].net = Undefined
        /\ \E t \in BagToSet(background) :
              /\ t.kind = "delivered"
              /\ t.from = "revalidate"
              /\ t.url = handlers[i].request.url
              /\ t.outcome.kind = "response"
              /\ t.outcome # handlers[i].cached
              /\ CacheMatch(caches, STATIC_CACHE, t.url) = t.outcome

\* C15 as stated: a stale-while-revalidate call that found no cached copy
\* and whose network attempt failed or timed out ends with that network
\* failure, not with an empty or missing response.
C15_Original ==
    \A i \in DOMAIN handlers :
        ( /\ handlers[i].strategy = "staleWhileRevalidate"
          /\ handlers[i].pc = "done"
          /\ handlers[i].cached.kind # "response"
          /\ handlers[i].net.kind = "error" ) =>
              /\ handlers[i].result = handlers[i].net
              /\ handlers[i].result # Undefined

\* C16: when a cache-first call that missed the critical partition gets a
\* response from the network before the timeout, it returns that response,
\* and after the step the critical partition maps the request to it while
\* every other entry and partition is as before.
C16_CacheFirstMissStores ==
    [][\A i \in DOMAIN handlers :
          (NetworkSettles(i, "cacheFirst") /\ handlers'[i].net.kind = "response") =>
              LET net == handlers'[i].net
                  url == handlers[i].request.url
              IN  /\ handlers[i].cached.kind # "response"
                  /\ handlers'[i].result = net
                  /\ CacheMatch(caches', CRITICAL_CACHE, url) = net
                  /\ SameExcept(caches, caches', CRITICAL_CACHE, url)
      ]_vars

\* A cache-first call missed, got the network's response and stored it.
C16_Witness ==
    \E i \in DOMAIN handlers :
        /\ handlers[i].strategy = "cacheFirst"
        /\ handlers[i].pc = "done"
        /\ handlers[i].cached = Undefined
        /\ handlers[i].net.kind = "response"
        /\ handlers[i].result = handlers[i].net
        /\ CacheMatch(caches, CRITICAL_CACHE, handlers[i].request.url) = handlers[i].net

(***************************************************************************)
(* Properties of the commands, step by step (SpecCommands).                *)
(***************************************************************************)
\* The handlers started in this step.
StartedTasks == SubSeq(tasks', Len(tasks) + 1, Len(tasks'))

\* C17: a CACHE_PAGE message starts one handler for its url and opens the
\* dynamic partition, leaving every existing partition as it was.  When
\* the handler's fetch delivers a response, the dynamic partition
\* afterwards maps the url to that response and nothing else changes, the
\* critical and the static partition included; when the fetch fails no
\* partition changes; in neither case does an error escape the handler.
C17_CachePage ==
    [][/\ \A data \in Messages :
            (HasType(data) /\ data.type = "CACHE_PAGE" /\ Message(data)) =>
                /\ Len(StartedTasks) = 1
                /\ StartedTasks[1].urls = <<Local(data.url)>>
                /\ caches' = CachesOpen(caches, DYNAMIC_CACHE)
       /\ \A t \in DOMAIN tasks :
            (tasks[t].type = "CACHE_PAGE" /\ tasks'[t] # tasks[t]) =>
                LET u == tasks[t].urls[1]
                    fetched == tasks'[t].fetched[1]
                IN  /\ ~tasks'[t].unhandled
                    /\ fetched.kind = "response" =>
                          /\ CacheMatch(caches', DYNAMIC_CACHE, u) = fetched
                          /\ SameExcept(caches, caches', DYNAMIC_CACHE, u)
                    /\ fetched.kind # "response" => caches' = caches
      ]_vars

\* Two CACHE_PAGE handlers have finished: the fetch of one succeeded and
\* the dynamic partition holds its response, the fetch of the other failed
\* and its url is absent; the critical partition holds the precache only.
C17_Witness ==
    /\ \E t \in DOMAIN tasks :
          /\ tasks[t].type = "CACHE_PAGE"
          /\ tasks[t].fetched[1].kind = "response"
          /\ CacheMatch(caches, DYNAMIC_CACHE, tasks[t].urls[1]) = tasks[t].fetched[1]
    /\ \E t \in DOMAIN tasks :
          /\ tasks[t].type = "CACHE_PAGE"
          /\ tasks[t].fetched[1].kind = "error"
          /\ ~tasks[t].unhandled
          /\ CacheMatch(caches, DYNAMIC_CACHE, tasks[t].urls[1]) = Undefined
    /\ DOMAIN caches[CRITICAL_CACHE] = Precached
    /\ caches[STATIC_CACHE] = EmptyCache

\* Nothing but the message counter changes in this step.
NothingTriggered ==
    /\ tasks' = tasks
    /\ caches' = caches
    /\ skipWaiting' = skipWaiting

\* The lifecycle state and the fetch handlers are as they were.
WorkerUntouched == UNCHANGED <<sw, inst, act, handlers, background>>

\* C18: the listener's dispatch.  SKIP_WAITING calls skipWaiting in the
\* step of the message, starts no handler and touches no partition;
\* CACHE_PAGE starts cachePage and nothing else, PREFETCH_ROUTES starts
\* prefetchRoutes and nothing else (each opens its own partition, dynamic
\* resp. critical); a message without data, without a type or with
\* another type starts nothing, calls nothing and changes no partition.
\* No message changes the lifecycle state or the fetch handlers.
C18_CommandDispatch ==
    [][\A data \in Messages :
          Message(data) =>
              /\ WorkerUntouched
              /\ IF ~HasType(data) \/ data.type \notin {"SKIP_WAITING", "CACHE_PAGE",
                                                         "PREFETCH_ROUTES"}
                 THEN NothingTriggered
                 ELSE CASE data.type = "SKIP_WAITING" ->
                             /\ skipWaiting' = skipWaiting + 1
                             /\ tasks' = tasks
                             /\ caches' = caches
                        [] data.type = "CACHE_PAGE" ->
                             /\ Len(StartedTasks) = 1
                             /\ StartedTasks[1].type = "CACHE_PAGE"
                             /\ StartedTasks[1].cacheName = DYNAMIC_CACHE
                             /\ skipWaiting' = skipWaiting
                             /\ caches' = CachesOpen(caches, DYNAMIC_CACHE)
                        [] data.type = "PREFETCH_ROUTES" ->
                             /\ Len(StartedTasks) = 1
                             /\ StartedTasks[1].type = "PREFETCH_ROUTES"
                             /\ StartedTasks[1].cacheName = CRITICAL_CACHE
                             /\ Len(StartedTasks[1].urls) = Len(data.routes)
                             /\ skipWaiting' = skipWaiting
                             /\ caches' = CachesOpen(caches, CRITICAL_CACHE)
      ]_vars

\* Two messages were received: a SKIP_WAITING, which called skipWaiting a
\* second time after install, and a CACHE_PAGE, which started the only
\* handler and opened the dynamic partition.
C18_Witness ==
    /\ nCmd = 2
    /\ skipWaiting = 2
    /\ Len(tasks) = 1
    /\ tasks[1].type = "CACHE_PAGE"
    /\ DYNAMIC_CACHE \in DOMAIN caches

(***************************************************************************)
(* The intercept filter (SpecFetch).                                       *)
(***************************************************************************)
\* The requests the claim excludes: a method other than GET, the scheme
\* chrome-extension, a host name with 'google-analytics' in it.
Excluded(request) ==
    \/ request.method # "GET"
    \/ request.url.protocol = "chrome-extension:"
    \/ \E k \in DOMAIN request.url.hostname : request.url.hostname[k] = "google-analytics"

\* C19: a request with a method other than GET, with the scheme
\* chrome-extension or with 'google-analytics' in its host name is not
\* answered: the listener returns without respondWith, no strategy runs
\* for it (no lookup, no network fetch, no result, no detached fetch), the
\* step that receives it reads and writes no partition, and nothing
\* happens for it later.
C19_InterceptFilter ==
    [][\A i \in DOMAIN handlers' :
          Excluded(handlers'[i].request) =>
              /\ handlers'[i].pc = "ignored"
              /\ handlers'[i].strategy = "none"
              /\ handlers'[i].cached = Undefined
              /\ handlers'[i].net = Undefined
              /\ handlers'[i].result = Undefined
              /\ handlers'[i].refreshes = 0
              /\ i \in DOMAIN handlers => handlers'[i] = handlers[i]
              /\ i \notin DOMAIN handlers => (caches' = caches /\ background' = background)
      ]_vars

\* A POST and a request to an analytics or extension URL were both left
\* to the browser, and the cache storage is as activation left it.
C19_Witness ==
    /\ Len(handlers) = 2
    /\ handlers[1].request.method = "POST"
    /\ handlers[1].pc = "ignored"
    /\ handlers[2].request.method = "GET"
    /\ Excluded(handlers[2].request)
    /\ handlers[2].pc = "ignored"
    /\ background = EmptyBag
    /\ DOMAIN caches = {CRITICAL_CACHE, STATIC_CACHE}
    /\ caches[STATIC_CACHE] = EmptyCache

(***************************************************************************)
(* Version isolation (SpecVersions).                                       *)
(***************************************************************************)
\* The names made of one of the three prefixes and the version string.
OwnPartitions ==
    { prefix \o CACHE_VERSION :
        prefix \in { <<"s", "t", "a", "t", "i", "c", "-">>,
                     <<"d", "y", "n", "a", "m", "i", "c", "-">>,
                     <<"c", "r", "i", "t", "i", "c", "a", "l", "-">> } }

\* C20: whatever install, the warm-up of activate, a strategy, a detached
\* fetch, CACHE_PAGE or PREFETCH_ROUTES does, the partition it names is
\* one of the three whose name is a prefix and the worker's own version
\* string, and no step opens (creates) or writes a partition with another
\* name: a partition of another version is either left exactly as it was
\* or deleted by activation.
C20_VersionIsolation ==
    [][/\ \A n \in (DOMAIN caches') \ OwnPartitions :
            n \in DOMAIN caches /\ caches'[n] = caches[n]
       /\ \A i \in DOMAIN handlers' :
            handlers'[i].pc # "ignored" => handlers'[i].cacheName \in OwnPartitions
       /\ \A t \in BagToSet(background') : t.cacheName \in OwnPartitions
       /\ \A t \in DOMAIN tasks' : tasks'[t].cacheName \in OwnPartitions
      ]_vars

\* The active worker has stored a response in one of its own partitions
\* while a partition of another version, kept by activation because its
\* name contains the version string, is still there and still empty.
C20_Witness ==
    /\ sw = "activated"
    /\ \E n \in (DOMAIN caches) \ OwnPartitions : caches[n] = EmptyCache
    /\ \/ \E i \in DOMAIN handlers :
             /\ handlers[i].pc = "done"
             /\ handlers[i].net.kind = "response"
             /\ CacheMatch(caches, handlers[i].cacheName, handlers[i].request.url)
                   = handlers[i].net
       \/ \E t \in DOMAIN tasks :
             /\ tasks[t].fetched[1].kind = "response"
             /\ CacheMatch(caches, tasks[t].cacheName, tasks[t].urls[1]) = tasks[t].fetched[1]

(***************************************************************************)
(* Handover: a worker of this version installs and activates while         *)
(* handlers of the worker it replaces are still in flight (SpecHandover).  *)
(***************************************************************************)
\* The name the replaced worker, whose CACHE_VERSION is v1.2023, gives to
\* the partition this worker calls name (script.js 773-776).
OldName(name) == SubSeq(name, 1, Len(name) - Len(CACHE_VERSION)) \o OldVersion

OldPartitions == { OldName(n) : n \in {STATIC_CACHE, DYNAMIC_CACHE, CRITICAL_CACHE} }

\* A fetch handler of the replaced worker, at its first await.
OldCall(request) == [StartCall(request) EXCEPT !.cacheName = OldName(@)]

\* A CACHE_PAGE handler of the replaced worker, its fetch pending.
OldTask(url) == [cachePage(url) EXCEPT !.cacheName = OldName(@)]

\* The cache storage the replaced worker leaves: its three partitions, a
\* stylesheet in the static one.
OldCaches ==
    [n \in OldPartitions |->
        IF n = OldName(STATIC_CACHE)
        THEN (Local(<<"/", "capabilities", "/", "styles.css">>) :> Resp(200, 1))
        ELSE EmptyCache]

InitHandover ==
    /\ sw = "parsed"
    /\ skipWaiting = 0
    /\ caches = OldCaches
    /\ inst = [addAll |-> "idle", failed |-> {}, fonts |-> [i \in DOMAIN FontUrls |-> "idle"]]
    /\ act = [keys |-> {}, pruned |-> FALSE,
              warm |-> [i \in DOMAIN WarmupPages |-> "idle"]]
    /\ \E request \in VersionRequests : handlers = <<OldCall(request)>>
    /\ background = EmptyBag
    /\ tasks \in { <<>>, <<OldTask(<<"/", "services", "/", "cloud.html">>)>> }
    /\ nFetch = 0
    /\ nCmd = 0
    /\ Constructed(<<>>)

NextHandover ==
    \/ Next
    \/ \E i \in DOMAIN handlers : CallOpen(i) \/ CallMatch(i) \/ CallFetch(i)
    \/ \E t \in BagToSet(background) : DetachedSettle(t)
    \/ \E t \in DOMAIN tasks : \E i \in DOMAIN tasks[t].urls : TaskSettle(t, i)

SpecHandover == InitHandover /\ [][NextHandover]_vars

RaceRequests ==
    { Request("GET", Local(<<"/", "blog", "/">>), "document"),
      Request("GET", Local(<<"/", "capabilities", "/", "styles.css">>), "style") }

NextRace ==
    \/ \E request \in RaceRequests : FetchEvent(request)
    \/ \E i \in DOMAIN handlers : CallOpen(i) \/ CallMatch(i) \/ CallFetch(i)
    \/ \E t \in BagToSet(background) : DetachedSettle(t)

SpecRace == InitFetch /\ [][NextRace]_vars

\* C22: when the awaited fetch of a cache-first or stale-while-revalidate
\* call settles, no other call in flight is touched by the step; a
\* response becomes the call's result and the partition's entry for the
\* request, whatever another call for the same request has written there
\* before (the last write wins, and there is one entry per request); a
\* rejection leaves the partition as it is and the call still settles with
\* its own fallback (the offline response, or the cached copy it read).
C22_LastWriteWins ==
    [][\A i \in DOMAIN handlers :
          (/\ handlers[i].pc = "net"
           /\ handlers'[i].pc = "done"
           /\ handlers[i].strategy \in {"cacheFirst", "staleWhileRevalidate"})
          => LET call == handlers'[i]
             IN  /\ \A j \in (DOMAIN handlers) \ {i} : handlers'[j] = handlers[j]
                 /\ call.net.kind = "response" =>
                       /\ call.result = call.net
                       /\ CacheMatch(caches', call.cacheName, call.request.url) = call.net
                 /\ call.net.kind = "error" =>
                       /\ caches' = caches
                       /\ call.result = IF call.strategy = "cacheFirst"
                                        THEN OfflineResponse ELSE call.cached
      ]_vars

\* Two calls for the same request both missed the partition and both
\* fetched; the network answered them with different bodies, and the
\* partition holds the response of the call that was started first, whose
\* write came last.
C22_Witness ==
    \E i, j \in DOMAIN handlers :
        /\ i < j
        /\ handlers[i].request = handlers[j].request
        /\ handlers[i].pc = "done" /\ handlers[j].pc = "done"
        /\ handlers[i].cached.kind = "undefined" /\ handlers[j].cached.kind = "undefined"
        /\ handlers[i].net.kind = "response" /\ handlers[j].net.kind = "response"
        /\ handlers[i].net # handlers[j].net
        /\ handlers[i].result = handlers[i].net /\ handlers[j].result = handlers[j].net
        /\ CacheMatch(caches, handlers[i].cacheName, handlers[i].request.url)
              = handlers[i].net

(***************************************************************************)
(* Resource hints over bootstrap and predictive prefetch (SpecPrefetch).   *)
(***************************************************************************)
\* C23 as stated: over the bootstrap hints followed by any sequence of
\* predictive prefetches, no URL has more than one hint element in the
\* document head, the pages hinted at bootstrap (/about/index.html and
\* /assessment/index.html) included.
C23_Original ==
    \A l \in BagToSet(head) :
        /\ CopiesIn(l, head) = 1
        /\ \A k \in BagToSet(head) \ {l} : Resolve(k.href) # Resolve(l.href)

\* C24: whichever trigger runs (the navigation container entering the
\* viewport, a hover, a scroll sample), every prefetch hint in the document
\* head points to the page's own origin, and an href of another origin that
\* was handed to prefetchResource is neither hinted nor remembered.
C24_ExternalNeverPrefetched ==
    /\ \A l \in BagToSet(head) : l.rel = "prefetch" => OriginOf(Resolve(l.href)) = PageOrigin
    /\ \A href \in BagToSet(requested) :
          OriginOf(href) # PageOrigin
          => /\ href \notin resourceHints
             /\ \A l \in BagToSet(head) : l.href # href

\* The protocol-relative link to another host, which the selector of the
\* viewport and scroll triggers lets through, has been handed to
\* prefetchResource by both of them, next to internal links that were
\* hinted; no hint points to it.
C24_Witness ==
    /\ \E href \in BagToSet(requested) :
          /\ OriginOf(href) # PageOrigin
          /\ CopiesIn(href, requested) >= 2
          /\ \A l \in BagToSet(head) : l.href # href
    /\ \E href \in BagToSet(requested) :
          OriginOf(href) = PageOrigin /\ BagIn(Link("prefetch", href), head)
    /\ inThrottle

(***************************************************************************)
(* The metrics record in the hands of a caller (SpecExposure).             *)
(***************************************************************************)
\* getMetrics returns this.metrics itself (part_001 597-599), neither a
\* copy nor a frozen object: an assignment a caller makes to a field of
\* the returned value is an assignment to the optimizer's record.
CallerWrites(field, value) ==
    /\ snapshot # <<>>
    /\ metrics' = [metrics EXCEPT ![field] = value]
    /\ metrics' # metrics
    /\ UNCHANGED <<swVars, pageVars, clsScore, received, snapshot, resourceHints, head, requested,
                   hoverTimer, inThrottle>>

NextExposure ==
    \/ NextMetrics
    \/ \E field \in DOMAIN metrics : \E value \in 0..MaxTime : CallerWrites(field, value)

SpecExposure == InitMetrics /\ [][NextExposure]_vars

\* C25 as stated: whatever a caller does with the value getMetrics
\* returned, the optimizer's metrics hold only what its signal handlers
\* wrote: a field whose signal was not reported has its initial value, and
\* cls is the running sum of the layout-shift handler.
C25_Original ==
    /\ \A f \in (DOMAIN metrics) \ received : metrics[f] = InitialMetrics[f]
    /\ metrics.cls = clsScore

(***************************************************************************)
(* Update notices and lazy elements (SpecPage).                            *)
(***************************************************************************)
\* C26: in every step, the page is reloaded only by a click on a notice
\* that is still shown; a notice is added only in a step in which a worker
\* announced by updatefound changes from 'installing' to 'installed' while
\* the page has a controller; and a notice that stops being shown without
\* a click (its timer expired) is removed without a reload.
C26_NoAutomaticReload ==
    [][/\ reloads' # reloads =>
             /\ reloads' = reloads + 1
             /\ \E n \in DOMAIN notifications :
                   notifications[n] = "shown" /\ notifications'[n] = "clicked"
       /\ Len(notifications') # Len(notifications) =>
             /\ notifications' = Append(notifications, "shown")
             /\ controller
             /\ \E w \in DOMAIN workers :
                   workers[w] = "installing" /\ workers'[w] = "installed"
       /\ \A n \in DOMAIN notifications :
             /\ notifications[n] # "shown" => notifications'[n] = notifications[n]
             /\ (notifications[n] = "shown" /\ notifications'[n] = "removed")
                   => reloads' = reloads
      ]_vars

\* One notice was shown and disappeared un-clicked, and a later one was
\* clicked and reloaded the page.
C26_Witness ==
    /\ reloads = 1
    /\ \E n, k \in DOMAIN notifications :
          notifications[n] = "removed" /\ notifications[k] = "clicked"

\* The number of deferred attributes element e came with.
Deferred(e) ==
    (IF LazyElements[e].dataSrc # "" THEN 1 ELSE 0)
    + (IF LazyElements[e].dataLazy # "" THEN 1 ELSE 0)

\* C28: a step that touches a watched element is the first report of it as
\* intersecting: its deferred source and content are swapped in, each once,
\* and it is unobserved; an element that is not observed any more is never
\* touched again, whatever the observer delivers afterwards.
C28_LazyAtMostOnce ==
    [][\A e \in DOMAIN lazy :
          /\ ~lazy[e].observed => lazy'[e] = lazy[e]
          /\ lazy'[e] # lazy[e] =>
                /\ lazy[e].observed /\ ~lazy[e].loaded /\ lazy[e].swaps = 0
                /\ ~lazy'[e].observed
                /\ lazy'[e].loaded
                /\ lazy'[e].src = LazyElements[e].dataSrc
                /\ lazy'[e].innerHTML = LazyElements[e].dataLazy
                /\ lazy'[e].dataSrc = "" /\ lazy'[e].dataLazy = ""
                /\ lazy'[e].swaps = Deferred(e)
      ]_vars

\* The image with a deferred source was reported twice as intersecting in
\* one delivery: its source was swapped in once and it is unobserved, while
\* another element, reported as not intersecting so far, is still observed.
C28_Witness ==
    /\ \E e \in DOMAIN lazy :
          /\ LazyElements[e].dataSrc # ""
          /\ lazy[e].calls = 2
          /\ lazy[e].swaps = 1
          /\ lazy[e].src = LazyElements[e].dataSrc
          /\ ~lazy[e].observed
    /\ \E e \in DOMAIN lazy : lazy[e].observed /\ ~lazy[e].loaded

(***************************************************************************)
(* Bootstrap without a service worker (SpecBootstrap).                     *)
(***************************************************************************)
\* C27: when service workers are unsupported or the registration has
\* rejected, no error has escaped the optimizer and every step of init has
\* run, the prefetch triggers, lazy loading and metrics collection among
\* them.
C27_RegistrationFailureNotFatal ==
    registration \in {"unsupported", "failed"} =>
        /\ ~unhandled
        /\ bootstrap = { InitSteps[k] : k \in DOMAIN InitSteps }
        /\ DOMAIN metrics = {"fcp", "lcp", "fid", "cls", "ttfb"}

\* The registration was rejected, and the page works: a paint signal was
\* recorded and read through getMetrics, links were prefetched and a lazy
\* element was loaded.
C27_Witness ==
    /\ registration = "failed"
    /\ snapshot # <<>> /\ snapshot[1].fcp > 0
    /\ requested # EmptyBag
    /\ \E e \in DOMAIN lazy : lazy[e].loaded

(***************************************************************************)
(* The layout-shift sum (SpecMetrics).                                     *)
(***************************************************************************)
\* The sum of the values of the entries not flagged as following recent
\* user input.
RECURSIVE ShiftSum(_)
ShiftSum(entries) ==
    IF entries = <<>> THEN 0
    ELSE (IF Head(entries).hadRecentInput THEN 0 ELSE Head(entries).value)
         + ShiftSum(Tail(entries))

\* C29: cls starts at 0 (C8); a delivery of layout-shift entries adds to it
\* the values of the entries not flagged as following recent user input,
\* and no other step changes it: at every moment cls is the sum over all
\* unflagged shifts reported so far, and it is never reset.
C29_RunningSum ==
    [][/\ \A entries \in LayoutShiftLists :
             LayoutShiftObserved(entries) => metrics'.cls = metrics.cls + ShiftSum(entries)
       /\ (\A entries \in LayoutShiftLists : ~LayoutShiftObserved(entries))
             => metrics'.cls = metrics.cls
       /\ metrics'.cls >= metrics.cls
      ]_vars

\* getMetrics reported a sum of 1 after a first unflagged shift; a later
\* delivery has brought the sum to 2.
C29_Witness ==
    /\ "cls" \in received
    /\ snapshot # <<>>
    /\ snapshot[1].cls = 1
    /\ metrics.cls = 2

(***************************************************************************)
(* Termination of the strategy calls (SpecLive).                           *)
(***************************************************************************)
\* Request handling in which nothing is assumed of the network: a fetch
\* may be answered, and may as well never be.  What is assumed is that
\* cache-storage operations complete and that timers fire.
NextLive ==
    \/ \E request \in VersionRequests : FetchEvent(request)
    \/ \E i \in DOMAIN handlers : CallOpen(i) \/ CallMatch(i) \/ CallFetch(i)
    \/ \E i \in DOMAIN handlers : CallTimeout(i)
    \/ \E t \in BagToSet(background) : DetachedSettle(t)

Fairness ==
    \A i \in 1..MaxFetchEvents :
        /\ WF_vars(i \in DOMAIN handlers /\ CallOpen(i))
        /\ WF_vars(i \in DOMAIN handlers /\ CallMatch(i))
        /\ WF_vars(i \in DOMAIN handlers /\ CallTimeout(i))

SpecLive == InitFetch /\ [][NextLive]_vars /\ Fairness

\* C30: every call of the fetch listener eventually settles, with a
\* response or a failure, whether or not the network answers: a
\* network-first call races its fetch against 3000 ms, a cache-first or
\* stale-while-revalidate call against 5000 ms.
C30_EveryCallTerminates ==
    /\ [](\A i \in DOMAIN handlers :
             handlers[i].pc # "ignored" =>
                handlers[i].timeout = IF handlers[i].strategy = "networkFirst"
                                      THEN 3000 ELSE 5000)
    /\ \A i \in 1..MaxFetchEvents :
          (i \in DOMAIN handlers)
             ~> (i \in DOMAIN handlers /\ handlers[i].pc \in {"done", "ignored"})

\* A network-first call and a stale-while-revalidate call have both been
\* ended by their timers, the network having answered neither in time.
C30_Witness ==
    \E i, j \in DOMAIN handlers :
        /\ handlers[i].strategy = "networkFirst"
        /\ handlers[i].pc = "done" /\ handlers[i].net = TimeoutError
        /\ handlers[i].timeout = NETWORK_TIMEOUT
        /\ handlers[j].strategy = "staleWhileRevalidate"
        /\ handlers[j].pc = "done" /\ handlers[j].net = TimeoutError
        /\ handlers[j].timeout = DEFAULT_TIMEOUT

(***************************************************************************)
(* The refresh behind a cache-first hit.                                   *)
(***************************************************************************)
\* C31: when the background refresh a cache-first hit started for a
\* request settles, the step touches no fetch handler, so the cached
\* response the caller was given stays what it was; a response of status
\* 200 replaces the entry of the request in the partition the hit came
\* from and nothing else in the cache storage changes; any other status,
\* and a rejection, leave the cache storage as it was.
C31_BackgroundRefresh ==
    [][\A t \in BagToSet(background') :
          DetachedSettles(t, "refresh") =>
              /\ handlers' = handlers
              /\ caches' = IF t.outcome.kind = "response" /\ t.outcome.status = 200
                           THEN CachePut(caches, t.cacheName, t.url, t.outcome)
                           ELSE caches
      ]_vars

\* A call was answered from the partition and its refresh has brought a
\* newer body with status 200: the partition holds the newer body, the
\* caller still holds the one it was given.
C31_Witness ==
    \E i \in DOMAIN handlers :
    \E t \in BagToSet(background) :
        /\ handlers[i].pc = "done"
        /\ handlers[i].strategy = "cacheFirst"
        /\ handlers[i].result = handlers[i].cached
        /\ handlers[i].result.kind = "response"
        /\ t.kind = "delivered" /\ t.from = "refresh"
        /\ t.url = handlers[i].request.url
        /\ t.outcome.kind = "response" /\ t.outcome.status = 200
        /\ t.outcome # handlers[i].result
        /\ CacheMatch(caches, t.cacheName, t.url) = t.outcome

(***************************************************************************)
(* Debounced hover and throttled scroll (SpecPrefetch).                    *)
(***************************************************************************)
\* C32: a mouseover event runs nothing by itself: it leaves exactly one
\* pending timer, which holds that event, so an event that arrives while a
\* timer is pending replaces it; the hover handler runs when the timer
\* fires, once, with the event the timer holds (the last of the burst), and
\* no timer is pending afterwards.
C32_HoverDebounced ==
    [][/\ (hoverTimer' # hoverTimer /\ hoverTimer' # <<>>) =>
              /\ Len(hoverTimer') = 1
              /\ UNCHANGED <<requested, head, resourceHints>>
       /\ (hoverTimer # <<>> /\ hoverTimer' # hoverTimer /\ requested' # requested) =>
              /\ hoverTimer' = <<>>
              /\ requested' = requested (+) Hrefs(HoverLinks(hoverTimer[Len(hoverTimer)]))
      ]_vars

\* The hover handler has run once, for an internal link, and nothing else
\* has been prefetched; no timer is pending.
C32_Witness ==
    \E href \in AnchorHrefs :
        /\ isInternalLink(href)
        /\ requested = SetToBag({href})
        /\ CopiesIn(href, requested) = 1
        /\ BagIn(Link("prefetch", href), head)
        /\ hoverTimer = <<>>
        /\ ~inThrottle

\* C33: a scroll event that finds the throttle open runs
\* prefetchVisibleLinks at once and closes the throttle; a scroll event
\* that finds it closed changes nothing; and the step that reopens the
\* throttle, 200 ms after the run, prefetches nothing, so there is no
\* trailing run for the events that were dropped.
C33_ScrollThrottled ==
    [][/\ \A visible \in SUBSET AnchorSet :
            Scroll(visible) =>
                IF inThrottle
                THEN UNCHANGED <<requested, head, resourceHints, inThrottle>>
                ELSE /\ inThrottle'
                     /\ requested' = requested (+)
                            Hrefs(SelectSeq(Anchors,
                                    LAMBDA a : RelativeSelector(a) /\ a \in visible))
       /\ (inThrottle /\ ~inThrottle') => UNCHANGED <<requested, head, resourceHints>>
      ]_vars

\* prefetchVisibleLinks has run twice over the same link, the throttle
\* having reopened in between, and the throttle is closed again.
C33_Witness ==
    /\ inThrottle
    /\ hoverTimer = <<>>
    /\ \E href \in AnchorHrefs :
          /\ requested = SetToBag({href}) (+) SetToBag({href})
          /\ CopiesIn(Link("prefetch", href), head) = 1

(***************************************************************************)
(* The first-input signal (SpecMetrics).                                   *)
(***************************************************************************)
\* C34: when the first-input observer has delivered its entry, the fid
\* metric is the entry's processingStart minus its startTime, whatever the
\* kind of input event the entry reports.
C34_Original ==
    [][\A entries \in FirstInputLists :
          FirstInputObserved(entries) =>
              metrics'.fid = entries[1].processingStart - entries[1].startTime
      ]_vars

(***************************************************************************)
(* The status of stored responses.                                         *)
(***************************************************************************)
\* C35 as stated: every response stored in the critical, static or dynamic
\* partition has status 200.
C35_Original ==
    \A n \in {CRITICAL_CACHE, STATIC_CACHE, DYNAMIC_CACHE} \cap DOMAIN caches :
        \A key \in DOMAIN caches[n] : caches[n][key].status = 200

\* C35: with request traffic alone the dynamic partition is written by
\* network-first only, which stores a response on condition that its
\* status is 200: every response in the dynamic partition has status 200.
C35_DynamicHoldsOnly200 ==
    DYNAMIC_CACHE \in DOMAIN caches =>
        \A key \in DOMAIN caches[DYNAMIC_CACHE] : caches[DYNAMIC_CACHE][key].status = 200

\* Two network-first calls for one request have finished: the network
\* answered one with status 200 and the other with 404, and the dynamic
\* partition holds the response of status 200.
C35_Witness ==
    \E i, j \in DOMAIN handlers :
        /\ handlers[i].strategy = "networkFirst" /\ handlers[i].pc = "done"
        /\ handlers[j].strategy = "networkFirst" /\ handlers[j].pc = "done"
        /\ handlers[i].request.url = handlers[j].request.url
        /\ handlers[i].net.kind = "response" /\ handlers[i].net.status = 200
        /\ handlers[j].net.kind = "response" /\ handlers[j].net.status = 404
        /\ handlers[j].result = handlers[j].net
        /\ CacheMatch(caches, DYNAMIC_CACHE, handlers[i].request.url) = handlers[i].net

(***************************************************************************)
(* Commands without their payload (SpecPayload).                           *)
(***************************************************************************)
\* A CACHE_PAGE message without url and a PREFETCH_ROUTES message without
\* routes.
BareMessages == { [type |-> "CACHE_PAGE"], [type |-> "PREFETCH_ROUTES"] }

NextPayload ==
    \/ \E data \in BareMessages : Message(data)
    \/ \E u \in RoutePool :
          Message([type |-> "CACHE_PAGE", url |-> u, routes |-> <<>>])
    \/ \E t \in DOMAIN tasks : \E i \in DOMAIN tasks[t].urls : TaskSettle(t, i)

SpecPayload == InitFetch /\ [][NextPayload]_vars

\* C36: a CACHE_PAGE message without url and a PREFETCH_ROUTES message
\* without routes start no fetch, leave the cache storage as it was, and
\* leave no command handler with an unhandled rejection.
C36_Original ==
    [][\A data \in BareMessages :
          Message(data) =>
              /\ TaskFetches(tasks') = TaskFetches(tasks)
              /\ caches' = caches
              /\ \A t \in DOMAIN tasks' : ~tasks'[t].unhandled
      ]_vars

(***************************************************************************)
(* The viewport animation loop (SpecViewport).                             *)
(***************************************************************************)
InitViewport ==
    /\ IdleWorker
    /\ ConstructedOn(<<>>, TRUE, FALSE)

NextViewport ==
    \/ VisibilityChange
    \/ \E inView \in BOOLEAN : AnimationFrame(inView)
    \/ \E entries \in LazyEntryLists : LazyObserved(entries)

SpecViewport == InitViewport /\ [][NextViewport]_vars

\* C37: whatever visibility changes and animation frames have happened,
\* requestAnimationFrame holds at most one callback of the animation loop.
C37_Original == frames <= 1

(***************************************************************************)
(* The capabilities page (SpecCapabilities, SpecRewards).                  *)
(***************************************************************************)
InitCapabilities ==
    /\ IdleWorker
    /\ ConstructedOn(<<>>, TRUE, FALSE)

NextCapabilities ==
    \/ \E serviceType \in ModalTypes \cup {"blockchain"} : OpenModal(serviceType)
    \/ CloseModal
    \/ \E target \in {"modalOverlay", "modalContent"} : ModalOverlayClicked(target)
    \/ \E key \in {"Escape", "Enter"} : KeyDown(key)
    \/ \E o \in ServiceIds : ServiceOverlayClicked(o)
    \/ \E o \in ServiceIds : BadgeTimerFires(o)
    \/ RippleTimerFires
    \/ \E z \in ServiceIds : ZoneClicked(z)
    \/ \E r \in {"mastery", "ultimate"} : RewardTimerFires(r)
    \/ \E r \in {"mastery", "ultimate"} : RewardRemoved(r)

SpecCapabilities == InitCapabilities /\ [][NextCapabilities]_vars

\* Every timer that has been set fires.
TimersFire ==
    /\ WF_vars(\E r \in {"mastery", "ultimate"} : RewardTimerFires(r))
    /\ WF_vars(\E o \in ServiceIds : BadgeTimerFires(o))
    /\ WF_vars(RippleTimerFires)

SpecRewards == InitCapabilities /\ [][NextCapabilities]_vars /\ TimersFire

\* C38: the modal overlay is active exactly when the body's overflow is
\* 'hidden', whatever calls of openModal with known and unknown types, of
\* closeModal, Escape key presses and clicks on the overlay have happened.
C38_ModalLocksScroll == modal.active <=> modal.overflow = "hidden"

\* The modal was opened for a service and closed again: the overlay is not
\* active and the scroll is released.
C38_Witness ==
    /\ ~modal.active
    /\ modal.body \in ModalTypes
    /\ modal.overflow = "visible"

\* C39: once all three overlays are revealed and all three hidden details
\* are discovered, the ultimate mastery reward is eventually shown.
C39_Original ==
    (revealed = ServiceIds /\ discovered = ServiceIds) ~> (rewards.ultimate = "shown")

\* C40: the service mastery reward is scheduled or shown only when each of
\* the three overlays has been revealed.
C40_Original == rewards.mastery # "none" => revealed = ServiceIds
====
